---- MODULE Spec2Model ----
(***************************************************************************)
(* A model of the chess rules engine of KrekBuk/ChessBot:                  *)
(*   chess/pieces.js (Square, Piece and the six piece classes),            *)
(*   chess/board.js  (Board),                                              *)
(*   chess/game.js   (GameState, Game).                                    *)
(* JavaScript objects are modelled as records; a method that mutates its   *)
(* receiver is an operator that returns the receiver's new value.          *)
(***************************************************************************)
EXTENDS Integers, Sequences, FiniteSets, TLC

(***************************************************************************)
(* Colours, piece types, results                                           *)
(***************************************************************************)
WHITE == "white"
BLACK == "black"

\* Color.swap
Swap(color) == IF color = WHITE THEN BLACK ELSE WHITE

PAWN == "pawn"
ROOK == "rook"
KNIGHT == "knight"
BISHOP == "bishop"
QUEEN == "queen"
KING == "king"

\* MoveResult
MOVE_OK == "ok"
NO_PIECE == "no_piece"
NOT_YOUR_PIECE == "not_your_piece"
ILLEGAL_PIECE_MOVE == "illegal_piece_move"
IN_CHECK_AFTER_TURN == "in_check"
GAME_ENDED == "game_ended"

\* Result
ONGOING == "ongoing"
WHITE_MATED == "white_mated"
BLACK_MATED == "black_mated"
WHITE_RESIGNED == "white_resigned"
BLACK_RESIGNED == "black_resigned"
WHITE_FLAGGED == "white_flagged"
BLACK_FLAGGED == "black_flagged"
STALEMATED == "stalemate"
INSUFFICIENT_MATERIAL == "insufficient_material"
THREEFOLD_REPETITION == "threefold_repetition"
FIFTY_MOVES == "fifty_moves"
DRAW_AGREED == "draw_agreed"

(***************************************************************************)
(* Square                                                                  *)
(***************************************************************************)
\* new Square(file, rankNumber) with a numeric file
Sq(file, rank) == [fileNumber |-> file, rankNumber |-> rank]

\* JavaScript's undefined where a Square is expected (no square is (0, 0))
NoSquare == Sq(0, 0)

\* Square.relative
Relative(sq, fileRelative, rankRelative) ==
    Sq(sq.fileNumber + fileRelative, sq.rankNumber + rankRelative)

\* Square.isValid
IsValid(sq) ==
    /\ sq.rankNumber >= 1
    /\ sq.fileNumber >= 1
    /\ sq.rankNumber <= 8
    /\ sq.fileNumber <= 8

\* Square.equals: !!other && same file && same rank
SquareEquals(this, other) ==
    /\ other # NoSquare
    /\ this.fileNumber = other.fileNumber
    /\ this.rankNumber = other.rankNumber

\* Square.getRelativesUntilInvalid (the loop, for a non-zero offset)
RECURSIVE GetRelativesUntilInvalid(_, _, _)
GetRelativesUntilInvalid(sq, fileRelative, rankRelative) ==
    LET current == Relative(sq, fileRelative, rankRelative)
    IN  IF ~IsValid(current)
        THEN <<>>
        ELSE <<current>> \o GetRelativesUntilInvalid(current, fileRelative, rankRelative)

\* the while loop of pathTo: pop until the popped square is `other`
RECURSIVE PopUntil(_, _)
PopUntil(path, other) ==
    IF Len(path) = 0
    THEN path
    ELSE IF SquareEquals(path[Len(path)], other)
         THEN SubSeq(path, 1, Len(path) - 1)
         ELSE PopUntil(SubSeq(path, 1, Len(path) - 1), other)

Abs(n) == IF n < 0 THEN -n ELSE n

\* fileChange === 0 ? 0 : fileChange / Math.abs(fileChange)
Reduced(change) == IF change = 0 THEN 0 ELSE IF change > 0 THEN 1 ELSE -1

\* Square.pathTo
PathTo(this, other) ==
    IF SquareEquals(other, this)
    THEN <<>>
    ELSE LET fileChange == other.fileNumber - this.fileNumber
             rankChange == other.rankNumber - this.rankNumber
         IN  IF \/ fileChange = 0
                \/ rankChange = 0
                \/ Abs(fileChange) = Abs(rankChange)
             THEN PopUntil(GetRelativesUntilInvalid(this, Reduced(fileChange),
                                                    Reduced(rankChange)), other)
             ELSE <<>>

\* Texts are sequences of UTF-16 code units ("E1" is <<69, 49>>).
\* Number-to-string conversion of a small integer, as string concatenation does
NumberToString(n) ==
    IF n < 0 THEN <<45, 48 + (-n)>>
    ELSE IF n < 10 THEN <<48 + n>>
    ELSE <<48 + (n \div 10), 48 + (n % 10)>>

\* Square.getFileLetter: String.fromCharCode('A'.charCodeAt() + fileNumber - 1)
GetFileLetter(sq) == <<65 + sq.fileNumber - 1>>

\* Square.asString
AsString(sq) == GetFileLetter(sq) \o NumberToString(sq.rankNumber)

\* fromString if it left out the + 1 of the rank
FromStringRankBelow(string) ==
    IF Len(string) # 2
    THEN NoSquare
    ELSE LET square == Sq(string[1] - 65 + 1, string[2] - 49)
         IN  IF ~IsValid(square) THEN NoSquare ELSE square

\* Square.fromString: 'A'.charCodeAt(0) is 65, '1'.charCodeAt(0) is 49; the
\* returned undefined is NoSquare
FromString(string) ==
    IF Len(string) # 2
    THEN NoSquare
    ELSE LET square == Sq(string[1] - 65 + 1, string[2] - 49 + 1)
         IN  IF ~IsValid(square) THEN NoSquare ELSE square

(***************************************************************************)
(* Pieces: candidate moves                                                 *)
(***************************************************************************)
\* JavaScript's undefined where a Piece is expected
NoPiece == [type |-> "none", color |-> "none", location |-> NoSquare, validMoves |-> <<>>]

\* getAdvanceDirection with the two colours exchanged
GetAdvanceDirectionSwapped(color) == IF color = WHITE THEN -1 ELSE 1

\* Pawn.getAdvanceDirection
GetAdvanceDirection(color) == IF color = WHITE THEN 1 ELSE -1

\* Pawn.recalculateValidMoves: pushes onto the list the piece already has
PawnValidMoves(piece) ==
    LET advanceDirection == GetAdvanceDirection(piece.color)
        pushed == piece.validMoves \o
                  << Relative(piece.location, 0, advanceDirection),
                     Relative(piece.location, 1, advanceDirection),
                     Relative(piece.location, -1, advanceDirection) >>
        first == IF \/ (piece.location.rankNumber = 2 /\ piece.color = WHITE)
                    \/ (piece.location.rankNumber = 7 /\ piece.color = BLACK)
                 THEN pushed \o <<Relative(piece.location, 0, advanceDirection * 2)>>
                 ELSE pushed
    IN  SelectSeq(first, IsValid)

\* Rook.recalculateValidMoves
RookValidMoves(piece) ==
    GetRelativesUntilInvalid(piece.location, -1, 0)
    \o GetRelativesUntilInvalid(piece.location, 1, 0)
    \o GetRelativesUntilInvalid(piece.location, 0, 1)
    \o GetRelativesUntilInvalid(piece.location, 0, -1)

\* Knight.recalculateValidMoves
KnightValidMoves(piece) ==
    SelectSeq(<< Relative(piece.location, 1, 2),
                 Relative(piece.location, -1, 2),
                 Relative(piece.location, 1, -2),
                 Relative(piece.location, -1, -2),
                 Relative(piece.location, 2, 1),
                 Relative(piece.location, -2, 1),
                 Relative(piece.location, 2, -1),
                 Relative(piece.location, -2, -1) >>, IsValid)

\* Bishop.recalculateValidMoves
BishopValidMoves(piece) ==
    GetRelativesUntilInvalid(piece.location, -1, -1)
    \o GetRelativesUntilInvalid(piece.location, -1, 1)
    \o GetRelativesUntilInvalid(piece.location, 1, -1)
    \o GetRelativesUntilInvalid(piece.location, 1, 1)

\* Queen.recalculateValidMoves
QueenValidMoves(piece) ==
    GetRelativesUntilInvalid(piece.location, -1, -1)
    \o GetRelativesUntilInvalid(piece.location, -1, 1)
    \o GetRelativesUntilInvalid(piece.location, 1, -1)
    \o GetRelativesUntilInvalid(piece.location, 1, 1)
    \o GetRelativesUntilInvalid(piece.location, -1, 0)
    \o GetRelativesUntilInvalid(piece.location, 1, 0)
    \o GetRelativesUntilInvalid(piece.location, 0, 1)
    \o GetRelativesUntilInvalid(piece.location, 0, -1)

\* King.recalculateValidMoves: reads the castling rights of the piece's board
KingValidMoves(piece, castlingRights) ==
    LET adjacent == << Relative(piece.location, -1, -1),
                       Relative(piece.location, -1, 1),
                       Relative(piece.location, 1, -1),
                       Relative(piece.location, 1, 1),
                       Relative(piece.location, -1, 0),
                       Relative(piece.location, 1, 0),
                       Relative(piece.location, 0, 1),
                       Relative(piece.location, 0, -1) >>
        withLong == IF castlingRights.long[piece.color]
                    THEN adjacent \o <<Relative(piece.location, -2, 0)>>
                    ELSE adjacent
        withShort == IF castlingRights.short[piece.color]
                     THEN withLong \o <<Relative(piece.location, 2, 0)>>
                     ELSE withLong
    IN  SelectSeq(withShort, IsValid)

\* piece.recalculateValidMoves(), by piece class
RecalculateValidMoves(piece, castlingRights) ==
    [piece EXCEPT !.validMoves =
        CASE piece.type = PAWN -> PawnValidMoves(piece)
          [] piece.type = ROOK -> RookValidMoves(piece)
          [] piece.type = KNIGHT -> KnightValidMoves(piece)
          [] piece.type = BISHOP -> BishopValidMoves(piece)
          [] piece.type = QUEEN -> QueenValidMoves(piece)
          [] piece.type = KING -> KingValidMoves(piece, castlingRights)
          [] OTHER -> <<>>]

\* Piece.instantiate / the Piece constructor: validMoves = [] and one recalculation
Instantiate(type, color, castlingRights, square) ==
    RecalculateValidMoves(
        [type |-> type, color |-> color, location |-> square, validMoves |-> <<>>],
        castlingRights)

\* Piece.updateLocation
UpdateLocation(piece, square, castlingRights) ==
    RecalculateValidMoves([piece EXCEPT !.location = square], castlingRights)

(***************************************************************************)
(* Board: the piece table                                                  *)
(***************************************************************************)
\* The property name under which _pieces holds the piece of a valid square:
\* asString() is one-to-one on valid squares, and the table is indexed by
\* the position of that name in the order A1, A2, ..., A8, B1, ..., H8.
KeyOf(location) == (location.fileNumber - 1) * 8 + location.rankNumber

Keys == 1..64

\* The table as a value: a sequence of 64 entries, NoPiece where the object
\* has no property.
PieceTable(entries) == SubSeq(entries, 1, 64)

\* !!piece
Present(piece) == piece.type # "none"

\* Board.getPiece
GetPiece(board, location) == board.pieces[KeyOf(location)]

\* setPiece if it left the hash cache as it was
SetPieceKeepingHash(board, piece) ==
    [board EXCEPT !.pieces[KeyOf(piece.location)] = piece]

\* Board.setPiece
SetPiece(board, piece) ==
    [board EXCEPT !.pieces[KeyOf(piece.location)] = piece, !.dirty = TRUE]

\* Board.removePieceAt
RemovePieceAt(board, location) ==
    [board EXCEPT !.pieces[KeyOf(location)] = NoPiece, !.dirty = TRUE]

\* isPathClear if it looked at no square of the path
IsPathClearUnchecked(board, path) == TRUE

\* Board.isPathClear
IsPathClear(board, path) ==
    \A i \in 1..Len(path) : ~Present(GetPiece(board, path[i]))

\* new Moves.Move(piece, from, to, capture, extra); `piece` is a reference to
\* the moved piece, of which the model keeps what the callers read.
PieceRef(piece) == [type |-> piece.type, color |-> piece.color, location |-> piece.location]

Move(piece, from, to, capture, extra) ==
    [piece |-> PieceRef(piece), from |-> from, to |-> to, capture |-> capture, extra |-> extra]

\* JavaScript's undefined where a Move is expected
NoMove == Move(NoPiece, NoSquare, NoSquare, FALSE, "")

\* the castlingRights object of a new Board()
NoCastlingRights ==
    [long |-> [c \in {WHITE, BLACK} |-> FALSE], short |-> [c \in {WHITE, BLACK} |-> FALSE]]

\* new Board(): no pieces, no rights, hash cache dirty, _hash = ""
NewBoard ==
    [pieces |-> PieceTable([k \in Keys |-> NoPiece]),
     castlingRights |-> NoCastlingRights,
     enPassantSquare |-> NoSquare,
     enPassantRef |-> 0,
     lastMove |-> NoMove,
     dirty |-> TRUE,
     hash |-> <<>>]

(***************************************************************************)
(* Pieces: validation of a move                                            *)
(***************************************************************************)
\* Piece.isMoveValid (the base class)
PieceIsMoveValid(piece, to) ==
    /\ IsValid(to)
    /\ \E i \in 1..Len(piece.validMoves) : SquareEquals(piece.validMoves[i], to)

\* "QRBKN".indexOf(extra) !== -1 for a text of length 1
PromotionLetters == {"Q", "R", "B", "K", "N"}

\* Pawn.isMoveValid
PawnIsMoveValid(board, piece, to, extra) ==
    /\ PieceIsMoveValid(piece, to)
    /\ LET advanceDirection == GetAdvanceDirection(piece.color)
           location == piece.location
       IN  IF location.fileNumber = to.fileNumber
           THEN /\ (location.rankNumber + advanceDirection # to.rankNumber)
                      => /\ (location.rankNumber = 2 \/ location.rankNumber = 7)
                         /\ location.rankNumber + advanceDirection * 2 = to.rankNumber
                /\ ~Present(GetPiece(board, to))
           ELSE IF \/ to.fileNumber = location.fileNumber - 1
                   \/ to.fileNumber = location.fileNumber + 1
                THEN LET capturedPiece ==
                             IF SquareEquals(to, board.enPassantSquare)
                             THEN GetPiece(board, Sq(to.fileNumber, location.rankNumber))
                             ELSE GetPiece(board, to)
                     IN  /\ Present(capturedPiece)
                         /\ capturedPiece.color # piece.color
                         /\ location.rankNumber + advanceDirection = to.rankNumber
                ELSE FALSE
    /\ (to.rankNumber = 1 \/ to.rankNumber = 8)
          => ~(extra = "" \/ Len(extra) # 1 \/ extra \notin PromotionLetters)

RECURSIVE IsMoveValid(_, _, _, _)
RECURSIVE IsAttacked(_, _, _)
RECURSIVE IsInCheck(_, _)

\* _validateCanCastle if it did not ask for a clear path to the rook
ValidateCanCastleWithoutPath(board, king, rook) ==
    /\ ~ \/ (king.color = WHITE /\ AsString(king.location) # <<69, 49>>)
         \/ (king.color = BLACK /\ AsString(king.location) # <<69, 56>>)
    /\ ~(~Present(rook) \/ rook.color # king.color \/ rook.type # ROOK)
    /\ ~IsInCheck(board, king.color)

\* King._validateCanCastle
ValidateCanCastle(board, king, rook) ==
    /\ ~ \/ (king.color = WHITE /\ AsString(king.location) # <<69, 49>>)
         \/ (king.color = BLACK /\ AsString(king.location) # <<69, 56>>)
    /\ ~(~Present(rook) \/ rook.color # king.color \/ rook.type # ROOK)
    /\ ~IsInCheck(board, king.color)
    /\ IsPathClear(board, PathTo(king.location, rook.location))

\* canCastleShort if it did not go on to _validateCanCastle
CanCastleShortWithoutValidation(board, king) ==
    /\ board.castlingRights.short[king.color]
    /\ ~IsAttacked(board, Sq(6, king.location.rankNumber), Swap(king.color))

\* King.canCastleShort; new Square('F', rank) is file 6, 'H' is file 8
CanCastleShort(board, king) ==
    /\ board.castlingRights.short[king.color]
    /\ ~IsAttacked(board, Sq(6, king.location.rankNumber), Swap(king.color))
    /\ ValidateCanCastle(board, king, GetPiece(board, Sq(8, king.location.rankNumber)))

\* King.canCastleLong; new Square('D', rank) is file 4, 'A' is file 1
CanCastleLong(board, king) ==
    /\ board.castlingRights.long[king.color]
    /\ ~IsAttacked(board, Sq(4, king.location.rankNumber), Swap(king.color))
    /\ ValidateCanCastle(board, king, GetPiece(board, Sq(1, king.location.rankNumber)))

\* King.isMoveValid
KingIsMoveValid(board, piece, to) ==
    /\ PieceIsMoveValid(piece, to)
    /\ IF piece.location.fileNumber = to.fileNumber - 2
       THEN CanCastleShort(board, piece)
       ELSE IF piece.location.fileNumber = to.fileNumber + 2
            THEN CanCastleLong(board, piece)
            ELSE TRUE

\* Rook.isMoveValid, Bishop.isMoveValid, Queen.isMoveValid
SliderIsMoveValid(board, piece, to) ==
    /\ PieceIsMoveValid(piece, to)
    /\ IsPathClear(board, PathTo(piece.location, to))

\* piece.isMoveValid(to, extra), by piece class
IsMoveValid(board, piece, to, extra) ==
    CASE piece.type = PAWN -> PawnIsMoveValid(board, piece, to, extra)
      [] piece.type = KNIGHT -> PieceIsMoveValid(piece, to)
      [] piece.type = KING -> KingIsMoveValid(board, piece, to)
      [] OTHER -> SliderIsMoveValid(board, piece, to)

\* Board.isAttacked; color = "" is the call without a colour filter
IsAttacked(board, square, color) ==
    \E k \in Keys :
        LET piece == board.pieces[k]
        IN  /\ Present(piece)
            /\ ~(color # "" /\ color # piece.color)
            /\ \E moveKey \in 1..Len(piece.validMoves) :
                   /\ SquareEquals(piece.validMoves[moveKey], square)
                   /\ IsMoveValid(board, piece, piece.validMoves[moveKey], "Q")

\* Board.isInCheck
IsInCheck(board, color) ==
    \E k \in Keys :
        LET piece == board.pieces[k]
        IN  /\ piece.type = KING
            /\ piece.color = color
            /\ IsAttacked(board, piece.location, Swap(color))

(***************************************************************************)
(* Board: making a move                                                    *)
(***************************************************************************)
\* Board.recalculateAllPiecesMoves
RecalculateAllPiecesMoves(board) ==
    [board EXCEPT !.pieces = PieceTable(
        [k \in Keys |-> IF Present(board.pieces[k])
                        THEN RecalculateValidMoves(board.pieces[k], board.castlingRights)
                        ELSE board.pieces[k]])]

\* afterMove of the base class if it left the en passant square as it was
PieceAfterMoveKeepingSquare(board) == board

\* Piece.afterMove (the base class): clears the en passant square
PieceAfterMove(board) ==
    [board EXCEPT !.enPassantSquare = NoSquare, !.enPassantRef = 0]

\* the switch of Pawn.afterMove if it had no case for "K"
PromotionTypeWithoutK(extra) ==
    CASE extra = "R" -> ROOK
      [] extra = "B" -> BISHOP
      [] extra = "N" -> KNIGHT
      [] OTHER -> QUEEN

\* the switch of Pawn.afterMove on move.extra
PromotionType(extra) ==
    CASE extra = "R" -> ROOK
      [] extra = "B" -> BISHOP
      [] extra = "K" -> KNIGHT
      [] extra = "N" -> KNIGHT
      [] OTHER -> QUEEN

\* Pawn.afterMove if it took the destination of a double advance for the en
\* passant square
PawnAfterMoveSquareAtDestination(board, piece, move, ref) ==
    LET advanceDirection == GetAdvanceDirection(piece.color)
        enPassant == SquareEquals(move.to, board.enPassantSquare)
        b1 == IF enPassant
              THEN RemovePieceAt(board, Sq(move.to.fileNumber, move.from.rankNumber))
              ELSE board
        m1 == IF enPassant THEN [move EXCEPT !.capture = TRUE] ELSE move
        b2 == PieceAfterMove(b1)
        b3 == IF move.from.rankNumber + advanceDirection * 2 = move.to.rankNumber
              THEN [b2 EXCEPT !.enPassantSquare = move.to, !.enPassantRef = ref]
              ELSE b2
        b4 == IF move.to.rankNumber = 1 \/ move.to.rankNumber = 8
              THEN SetPiece(RemovePieceAt(b3, move.to),
                            Instantiate(PromotionType(move.extra), piece.color,
                                        b3.castlingRights, move.to))
              ELSE b3
    IN  [board |-> b4, move |-> m1]

\* Pawn.afterMove; the result is the board and the move (move.capture may be set).
\* `ref` is the identity of the Square object the call allocates for the en
\* passant square.
PawnAfterMove(board, piece, move, ref) ==
    LET advanceDirection == GetAdvanceDirection(piece.color)
        enPassant == SquareEquals(move.to, board.enPassantSquare)
        b1 == IF enPassant
              THEN RemovePieceAt(board, Sq(move.to.fileNumber, move.from.rankNumber))
              ELSE board
        m1 == IF enPassant THEN [move EXCEPT !.capture = TRUE] ELSE move
        b2 == PieceAfterMove(b1)
        b3 == IF move.from.rankNumber + advanceDirection * 2 = move.to.rankNumber
              THEN [b2 EXCEPT !.enPassantSquare = Relative(move.from, 0, advanceDirection),
                              !.enPassantRef = ref]
              ELSE b2
        b4 == IF move.to.rankNumber = 1 \/ move.to.rankNumber = 8
              THEN SetPiece(RemovePieceAt(b3, move.to),
                            Instantiate(PromotionType(move.extra), piece.color,
                                        b3.castlingRights, move.to))
              ELSE b3
    IN  [board |-> b4, move |-> m1]

\* Rook.afterMove if it left the castling rights alone
RookAfterMoveKeepingRights(board, piece, move) ==
    [board |-> PieceAfterMove(board), move |-> move]

\* Rook.afterMove
RookAfterMove(board, piece, move) ==
    LET b1 == PieceAfterMove(board)
        b2 == IF move.from.fileNumber = 8
              THEN [b1 EXCEPT !.castlingRights.short[piece.color] = FALSE]
              ELSE b1
        b3 == IF move.from.fileNumber = 1
              THEN [b2 EXCEPT !.castlingRights.long[piece.color] = FALSE]
              ELSE b2
    IN  [board |-> b3, move |-> move]

\* King.afterMove if it put the rook on the crossed square and left it on the
\* corner as well
KingAfterMoveKeepingCorner(board, piece, move) ==
    LET b1 == PieceAfterMove(board)
        short == move.to.fileNumber = move.from.fileNumber + 2
        long == move.to.fileNumber = move.from.fileNumber - 2
        rookFrom == IF long THEN Sq(1, piece.location.rankNumber)
                    ELSE Sq(8, piece.location.rankNumber)
        rookTo == IF long THEN Sq(4, piece.location.rankNumber)
                  ELSE Sq(6, piece.location.rankNumber)
        b2 == IF short \/ long
              THEN SetPiece(b1, UpdateLocation(GetPiece(b1, rookFrom), rookTo, b1.castlingRights))
              ELSE b1
    IN  [board |-> [b2 EXCEPT !.castlingRights.long[piece.color] = FALSE,
                              !.castlingRights.short[piece.color] = FALSE],
         move |-> move]

\* King.afterMove; `piece` is the king at its new location
KingAfterMove(board, piece, move) ==
    LET b1 == PieceAfterMove(board)
        short == move.to.fileNumber = move.from.fileNumber + 2
        long == move.to.fileNumber = move.from.fileNumber - 2
        rookFrom == IF long THEN Sq(1, piece.location.rankNumber)
                    ELSE Sq(8, piece.location.rankNumber)
        rookTo == IF long THEN Sq(4, piece.location.rankNumber)
                  ELSE Sq(6, piece.location.rankNumber)
        b2 == IF short \/ long
              THEN SetPiece(RemovePieceAt(b1, rookFrom),
                            UpdateLocation(GetPiece(b1, rookFrom), rookTo, b1.castlingRights))
              ELSE b1
    IN  [board |-> [b2 EXCEPT !.castlingRights.long[piece.color] = FALSE,
                              !.castlingRights.short[piece.color] = FALSE],
         move |-> move]

\* piece.afterMove(move), by piece class
AfterMove(board, piece, move, ref) ==
    CASE piece.type = PAWN -> PawnAfterMove(board, piece, move, ref)
      [] piece.type = ROOK -> RookAfterMove(board, piece, move)
      [] piece.type = KING -> KingAfterMove(board, piece, move)
      [] OTHER -> [board |-> PieceAfterMove(board), move |-> move]

\* Board.makeMoveIfValid: the returned boolean and the board after the call
MakeMoveIfValid(board, from, to, extra, ref) ==
    LET piece == GetPiece(board, from)
        pieceAtDestination == GetPiece(board, to)
    IN  IF ~Present(piece)
        THEN [ok |-> FALSE, board |-> board]
        ELSE IF ~IsMoveValid(board, piece, to, extra)
        THEN [ok |-> FALSE, board |-> board]
        ELSE IF Present(pieceAtDestination) /\ pieceAtDestination.color = piece.color
        THEN [ok |-> FALSE, board |-> board]
        ELSE LET lastMove == Move(piece, from, to, Present(pieceAtDestination), extra)
                 b1 == IF Present(pieceAtDestination) THEN RemovePieceAt(board, to) ELSE board
                 b2 == RemovePieceAt(b1, from)
                 moved == UpdateLocation(piece, to, b2.castlingRights)
                 b3 == SetPiece(b2, moved)
                 after == AfterMove(b3, moved, [lastMove EXCEPT !.piece = PieceRef(moved)], ref)
                 b4 == RecalculateAllPiecesMoves(after.board)
             IN  [ok |-> TRUE, board |-> [b4 EXCEPT !.lastMove = after.move]]

\* Board.cloneBoard
CloneBoard(board) ==
    LET pieces == PieceTable([k \in Keys |->
                      IF ~Present(board.pieces[k])
                      THEN NoPiece
                      ELSE Instantiate(board.pieces[k].type, board.pieces[k].color,
                                       board.castlingRights, board.pieces[k].location)])
    IN  [pieces |-> pieces,
         castlingRights |-> board.castlingRights,
         enPassantSquare |-> board.enPassantSquare,
         enPassantRef |-> board.enPassantRef,
         lastMove |-> IF board.lastMove # NoMove
                      THEN [board.lastMove EXCEPT
                               !.piece = PieceRef(pieces[KeyOf(board.lastMove.piece.location)])]
                      ELSE NoMove,
         dirty |-> TRUE,
         hash |-> <<>>]

\* cloneToAnotherBoard if it returned the piece itself
ClonedPieceIsTheSamePiece == FALSE

\* Piece.cloneToAnotherBoard returns Piece.instantiate(...), a new object: no
\* piece of the clone is a piece of the original
ClonedPieceIsNewObject == TRUE

\* Board.cloneBoard: new Board() gives the clone castlingRights objects of its
\* own, into which the four flags are copied one by one
ClonedRightsAreNewObject == TRUE

\* The original board after clone.makeMoveIfValid(...) has returned `trial`:
\* what the original reads from the objects it shares with its clone. A Piece
\* that both boards held would have been given its new location
\* (updateLocation), and castlingRights objects that both boards held would
\* carry the flags the move left. Squares are shared, and never modified.
OriginalAfterMoveOnClone(original, trial) ==
    IF ~trial.ok
    THEN original
    ELSE [original EXCEPT
             !.castlingRights = IF ClonedRightsAreNewObject
                                THEN original.castlingRights
                                ELSE trial.board.castlingRights,
             !.pieces = IF ClonedPieceIsNewObject
                        THEN original.pieces
                        ELSE PieceTable([k \in Keys |->
                                 IF k = KeyOf(trial.board.lastMove.from)
                                 THEN [original.pieces[k] EXCEPT
                                          !.location = trial.board.lastMove.to]
                                 ELSE original.pieces[k]])]

\* One pass of the inner loop of Board.getValidMovesFor, for the piece under
\* key k and its candidate number moveId: whether the pass adds an entry to the
\* list. `clone` is this.cloneBoard(): every pass clones the same board.
AddsValidMove(board, clone, color, k, moveId) ==
    LET trial == MakeMoveIfValid(clone, board.pieces[k].location,
                                 board.pieces[k].validMoves[moveId], "Q", 0)
    IN  trial.ok /\ ~IsInCheck(trial.board, color)

\* Board.getValidMovesFor: the entries of the returned list, each named by the
\* key of the piece and the number of the candidate that produced it (the
\* list holds board.lastMove of each trial board, in the order in which the
\* piece table is enumerated).
GetValidMovesFor(board, color) ==
    LET clone == CloneBoard(board)
    IN  { e \in UNION { {<<k, moveId>> : moveId \in 1..Len(board.pieces[k].validMoves)} :
                            k \in {j \in Keys : board.pieces[j].color = color} } :
            AddsValidMove(board, clone, color, e[1], e[2]) }

\* board.getValidMovesFor(color).length === 0
HasNoValidMoves(board, color) ==
    LET clone == CloneBoard(board)
    IN  \A k \in Keys :
            board.pieces[k].color = color =>
                \A moveId \in 1..Len(board.pieces[k].validMoves) :
                    ~AddsValidMove(board, clone, color, k, moveId)

\* Board.getPiecesCountByType
GetPiecesCountByType(board, color) ==
    [t \in {KING, QUEEN, ROOK, BISHOP, KNIGHT, PAWN} |->
        Cardinality({k \in Keys : /\ Present(board.pieces[k])
                                  /\ board.pieces[k].color = color
                                  /\ board.pieces[k].type = t})]

\* Board._setupInitialPieces and Board._setupInitialPawns, for both colours
InitialPieceTypes == <<ROOK, KNIGHT, BISHOP, QUEEN, KING, BISHOP, KNIGHT, ROOK>>

AllCastlingRights ==
    [long |-> [c \in {WHITE, BLACK} |-> TRUE], short |-> [c \in {WHITE, BLACK} |-> TRUE]]

\* Board.setupDefaultBoard on a new Board()
SetupDefaultBoard ==
    [NewBoard EXCEPT
        !.castlingRights = AllCastlingRights,
        !.pieces = PieceTable([k \in Keys |->
            LET file == ((k - 1) \div 8) + 1
                rank == ((k - 1) % 8) + 1
            IN  CASE rank = 1 -> Instantiate(InitialPieceTypes[file], WHITE,
                                             AllCastlingRights, Sq(file, rank))
                  [] rank = 8 -> Instantiate(InitialPieceTypes[file], BLACK,
                                             AllCastlingRights, Sq(file, rank))
                  [] rank = 2 -> Instantiate(PAWN, WHITE, AllCastlingRights, Sq(file, rank))
                  [] rank = 7 -> Instantiate(PAWN, BLACK, AllCastlingRights, Sq(file, rank))
                  [] OTHER -> NoPiece])]

(***************************************************************************)
(* Board: position hash and equality                                       *)
(***************************************************************************)
\* the switch of calculateHash on piece.type
PieceTypeId(type) ==
    CASE type = PAWN -> 1
      [] type = KNIGHT -> 2
      [] type = ROOK -> 3
      [] type = BISHOP -> 4
      [] type = QUEEN -> 5
      [] type = KING -> 6

\* Number.prototype.toString of a non-negative integer
RECURSIVE DecimalString(_)
DecimalString(n) ==
    IF n < 10 THEN <<48 + n>> ELSE DecimalString(n \div 10) \o <<48 + (n % 10)>>

\* The loop of calculateHash. Each piece found overwrites `hash`, so the value
\* after the loop is that of the last piece in the order of the loop: the outer
\* counter is passed as the file and the inner one as the rank, which is the
\* order of the keys. (hash |= 0 leaves a value below 2^31 as it is.)
HashLoop(board) ==
    LET occupied == {k \in Keys : Present(board.pieces[k])}
    IN  IF occupied = {}
        THEN 7
        ELSE LET piece == board.pieces[CHOOSE k \in occupied : \A j \in occupied : j <= k]
                 pieceColorId == IF piece.color = WHITE THEN 1 ELSE 2
             IN  31 * (128 * PieceTypeId(piece.type) + 64 * pieceColorId
                       + piece.location.rankNumber * 8 + piece.location.fileNumber)

\* Board.calculateHash: the returned text
CalculateHash(board) ==
    IF ~board.dirty THEN board.hash ELSE DecimalString(HashLoop(board))

\* Board.calculateHash: the board after the call (the cache is filled)
CacheHash(board) ==
    IF ~board.dirty THEN board
    ELSE [board EXCEPT !.dirty = FALSE, !.hash = DecimalString(HashLoop(board))]

\* other.enPassantSquare !== this.enPassantSquare: the two fields are compared
\* as references. Two undefined fields are the same; two squares are the same
\* object when they were allocated by the same call.
SameEnPassantObject(this, other) ==
    \/ (this.enPassantSquare = NoSquare /\ other.enPassantSquare = NoSquare)
    \/ /\ this.enPassantSquare # NoSquare
       /\ other.enPassantSquare # NoSquare
       /\ this.enPassantRef = other.enPassantRef

\* Board.equals: the loop runs over the pieces of `this` only
Equals(this, other) ==
    /\ ~ \/ ~SameEnPassantObject(this, other)
         \/ other.castlingRights.short[WHITE] # this.castlingRights.short[WHITE]
         \/ other.castlingRights.short[BLACK] # this.castlingRights.short[BLACK]
         \/ other.castlingRights.long[WHITE] # this.castlingRights.long[WHITE]
         \/ other.castlingRights.long[BLACK] # this.castlingRights.long[BLACK]
    /\ \A k \in {j \in Keys : Present(this.pieces[j])} :
           LET p1 == this.pieces[k]
               p2 == other.pieces[k]
           IN  /\ Present(p2)
               /\ ~(p1.color # p2.color \/ p1.type # p2.type)

(***************************************************************************)
(* Game                                                                    *)
(***************************************************************************)
VARIABLES
    currentState,   \* Game.currentState: a GameState
    stateHistory,   \* Game.stateHistory: GameStates, oldest first
    result,         \* Game.result
    ret,            \* the last call made on the Game and the value it returned
    takebacks,      \* the number of takebackMove calls that undid a move
    offers          \* the colours that called offerDraw with success: since the
                    \* last reset, and since the last successful makeMove

vars == <<currentState, stateHistory, result, ret, takebacks, offers>>

game == <<currentState, stateHistory, result>>

\* new GameState(board, halfMoveClock, currentTurn, whiteOffersDraw, blackOffersDraw)
GameState(board, halfMoveClock, currentTurn, whiteOffersDraw, blackOffersDraw) ==
    [board |-> board,
     halfMoveClock |-> halfMoveClock,
     currentTurn |-> currentTurn,
     whiteOffersDraw |-> whiteOffersDraw,
     blackOffersDraw |-> blackOffersDraw]

\* the method last called on the Game and the value it returned (booleans and
\* undefined are written as texts)
Call(op, value) == [op |-> op, value |-> value]

\* Game._validateHasSufficientMaterial
ValidateHasSufficientMaterial(board, side) ==
    LET count == GetPiecesCountByType(board, side)
    IN  IF count[ROOK] # 0 \/ count[QUEEN] # 0 \/ count[PAWN] # 0
        THEN TRUE
        ELSE IF count[BISHOP] >= 2
        THEN TRUE
        ELSE IF count[KNIGHT] >= 3
        THEN TRUE
        ELSE count[BISHOP] >= 1 /\ count[KNIGHT] >= 1

\* checkForInsufficientMaterial if it asked for one colour without material
CheckForInsufficientMaterialOfEither(board) ==
    \/ ~ValidateHasSufficientMaterial(board, WHITE)
    \/ ~ValidateHasSufficientMaterial(board, BLACK)

\* Game.checkForInsufficientMaterial
CheckForInsufficientMaterial(board) ==
    /\ ~ValidateHasSufficientMaterial(board, WHITE)
    /\ ~ValidateHasSufficientMaterial(board, BLACK)

\* the counter if it started at 0, not counting the current position
AmountOfPreviousSamePositionsFromZero(board, history) ==
    Cardinality({i \in 1..Len(history) :
                    /\ ~(CalculateHash(board) # CalculateHash(history[i].board))
                    /\ Equals(board, history[i].board)})

\* the counter if it counted only the states in which the side to move is
\* the one to move now (White after an even number of moves)
AmountOfPreviousSamePositionsOfTheTurn(board, history) ==
    1 + Cardinality({i \in 1..Len(history) :
                        /\ ~(CalculateHash(board) # CalculateHash(history[i].board))
                        /\ Equals(board, history[i].board)
                        /\ history[i].currentTurn =
                               IF Len(history) % 2 = 0 THEN WHITE ELSE BLACK})

\* the counter of Game.checkForThreefoldRepetition after its loop
AmountOfPreviousSamePositions(board, history) ==
    1 + Cardinality({i \in 1..Len(history) :
                        /\ ~(CalculateHash(board) # CalculateHash(history[i].board))
                        /\ Equals(board, history[i].board)})

\* Game.checkForThreefoldRepetition
CheckForThreefoldRepetition(board, history) ==
    AmountOfPreviousSamePositions(board, history) >= 3

\* checkForFiftyMoveRuleViolation if it let the fiftieth half-move pass
CheckForFiftyMoveRuleViolationAfterFifty(state) == state.halfMoveClock > 50

\* Game.checkForFiftyMoveRuleViolation
CheckForFiftyMoveRuleViolation(state) == state.halfMoveClock >= 50

\* the chain if it asked for the fifty-move rule first
TerminationFiftyFirst(state, history) ==
    IF CheckForFiftyMoveRuleViolation(state)
    THEN FIFTY_MOVES
    ELSE IF HasNoValidMoves(state.board, state.currentTurn)
    THEN IF IsInCheck(state.board, state.currentTurn)
         THEN IF state.currentTurn = WHITE THEN WHITE_MATED ELSE BLACK_MATED
         ELSE STALEMATED
    ELSE IF CheckForInsufficientMaterial(state.board)
    THEN INSUFFICIENT_MATERIAL
    ELSE IF CheckForThreefoldRepetition(state.board, history)
    THEN THREEFOLD_REPETITION
    ELSE ONGOING

\* the chain if it named the mated side by the colour that gave mate
TerminationMatedSwapped(state, history) ==
    IF HasNoValidMoves(state.board, state.currentTurn)
    THEN IF IsInCheck(state.board, state.currentTurn)
         THEN IF state.currentTurn = WHITE THEN BLACK_MATED ELSE WHITE_MATED
         ELSE STALEMATED
    ELSE IF CheckForInsufficientMaterial(state.board)
    THEN INSUFFICIENT_MATERIAL
    ELSE IF CheckForThreefoldRepetition(state.board, history)
    THEN THREEFOLD_REPETITION
    ELSE IF CheckForFiftyMoveRuleViolation(state)
    THEN FIFTY_MOVES
    ELSE ONGOING

\* the if / else-if chain that ends Game.makeMove: the result it leaves
Termination(state, history) ==
    IF HasNoValidMoves(state.board, state.currentTurn)
    THEN IF IsInCheck(state.board, state.currentTurn)
         THEN IF state.currentTurn = WHITE THEN WHITE_MATED ELSE BLACK_MATED
         ELSE STALEMATED
    ELSE IF CheckForInsufficientMaterial(state.board)
    THEN INSUFFICIENT_MATERIAL
    ELSE IF CheckForThreefoldRepetition(state.board, history)
    THEN THREEFOLD_REPETITION
    ELSE IF CheckForFiftyMoveRuleViolation(state)
    THEN FIFTY_MOVES
    ELSE ONGOING

\* The chain reaches checkForThreefoldRepetition unless one of its first two
\* conditions holds; the calculateHash calls made there fill the hash cache of
\* the current board and of every board in the history.
ReachesRepetitionCheck(termination) ==
    termination \in {THREEFOLD_REPETITION, FIFTY_MOVES, ONGOING}

\* no offerDraw call has been made
NoOffers == [sinceReset |-> {}, sinceMove |-> {}]

\* Game.reset (the constructor calls it)
Reset ==
    /\ currentState' = GameState(SetupDefaultBoard, 0, WHITE, FALSE, FALSE)
    /\ stateHistory' = <<>>
    /\ result' = ONGOING
    /\ ret' = Call("reset", "undefined")
    /\ takebacks' = 0
    /\ offers' = NoOffers

Init ==
    /\ currentState = GameState(SetupDefaultBoard, 0, WHITE, FALSE, FALSE)
    /\ stateHistory = <<>>
    /\ result = ONGOING
    /\ ret = Call("reset", "undefined")
    /\ takebacks = 0
    /\ offers = NoOffers

\* Game.makeMove: newBoard after newBoard.makeMoveIfValid(piece.location, to,
\* extra), with the boolean that call returned. The Square allocated for an en
\* passant square by the n-th move of the game is object n.
NewBoardTrial(from, to, extra) ==
    MakeMoveIfValid(CloneBoard(currentState.board),
                    GetPiece(currentState.board, from).location, to, extra,
                    Len(stateHistory) + 1)

\* makeMove's returned value if the test of newBoard.isInCheck were left out
MakeMoveResultWithoutCheckTest(from, trial) ==
    LET piece == GetPiece(currentState.board, from)
    IN  IF result # ONGOING
        THEN GAME_ENDED
        ELSE IF ~Present(piece)
        THEN NO_PIECE
        ELSE IF piece.color # currentState.currentTurn
        THEN NOT_YOUR_PIECE
        ELSE IF ~trial.ok
        THEN ILLEGAL_PIECE_MOVE
        ELSE MOVE_OK

\* makeMove's returned value if the piece were looked up before the result
MakeMoveResultPieceFirst(from, trial) ==
    LET piece == GetPiece(currentState.board, from)
    IN  IF ~Present(piece)
        THEN NO_PIECE
        ELSE IF result # ONGOING
        THEN GAME_ENDED
        ELSE IF piece.color # currentState.currentTurn
        THEN NOT_YOUR_PIECE
        ELSE IF ~trial.ok
        THEN ILLEGAL_PIECE_MOVE
        ELSE IF IsInCheck(trial.board, currentState.currentTurn)
        THEN IN_CHECK_AFTER_TURN
        ELSE MOVE_OK

\* Game.makeMove: the value it returns, given the trial on newBoard
MakeMoveResult(from, trial) ==
    LET piece == GetPiece(currentState.board, from)
    IN  IF result # ONGOING
        THEN GAME_ENDED
        ELSE IF ~Present(piece)
        THEN NO_PIECE
        ELSE IF piece.color # currentState.currentTurn
        THEN NOT_YOUR_PIECE
        ELSE IF ~trial.ok
        THEN ILLEGAL_PIECE_MOVE
        ELSE IF IsInCheck(trial.board, currentState.currentTurn)
        THEN IN_CHECK_AFTER_TURN
        ELSE MOVE_OK

\* makeMove's new GameState if only a pawn move reset the clock
StateAfterMovePawnOnly(previousState, newBoard) ==
    GameState(newBoard,
              IF newBoard.lastMove.piece.type = PAWN
              THEN 0
              ELSE previousState.halfMoveClock + 1,
              Swap(previousState.currentTurn),
              FALSE,
              FALSE)

\* makeMove's new GameState if it left the turn with the mover
StateAfterMoveSameTurn(previousState, newBoard) ==
    GameState(newBoard,
              IF newBoard.lastMove.capture \/ newBoard.lastMove.piece.type = PAWN
              THEN 0
              ELSE previousState.halfMoveClock + 1,
              previousState.currentTurn,
              FALSE,
              FALSE)

\* Game.makeMove: the GameState it installs when it returns MOVE_OK
StateAfterMove(previousState, newBoard) ==
    GameState(newBoard,
              IF newBoard.lastMove.capture \/ newBoard.lastMove.piece.type = PAWN
              THEN 0
              ELSE previousState.halfMoveClock + 1,
              Swap(previousState.currentTurn),
              FALSE,
              FALSE)

\* makeMove if it tried the move on the current board instead of on a clone: a
\* move rejected for leaving the king in check would stay on the board
MakeMoveWithoutClone(from, to, extra) ==
    LET trial == NewBoardTrial(from, to, extra)
        value == MakeMoveResult(from, trial)
    IN  /\ ret' = Call("makeMove", value)
        /\ takebacks' = takebacks
        /\ offers' = IF value = MOVE_OK THEN [offers EXCEPT !.sinceMove = {}] ELSE offers
        /\ IF value \in {GAME_ENDED, NO_PIECE, NOT_YOUR_PIECE, ILLEGAL_PIECE_MOVE}
           THEN UNCHANGED game
           ELSE IF value = IN_CHECK_AFTER_TURN
           THEN /\ currentState' = [currentState EXCEPT !.board = trial.board]
                /\ UNCHANGED <<stateHistory, result>>
           ELSE LET state == StateAfterMove(currentState, trial.board)
                    history == Append(stateHistory, currentState)
                    termination == Termination(state, history)
                IN  /\ stateHistory' = history
                    /\ currentState' = state
                    /\ result' = termination

\* Game.makeMove. The move is tried on a clone of the current board; the
\* current state, which is kept or pushed onto the history, holds the
\* original. Without a piece on from the code returns before it clones.
MakeMove(from, to, extra) ==
    \E trial \in { IF Present(GetPiece(currentState.board, from))
                   THEN NewBoardTrial(from, to, extra)
                   ELSE [ok |-> FALSE, board |-> currentState.board] } :
    \E value \in { MakeMoveResult(from, trial) } :
    \E previousState \in
           { IF value \in {ILLEGAL_PIECE_MOVE, IN_CHECK_AFTER_TURN, MOVE_OK}
             THEN [currentState EXCEPT !.board = OriginalAfterMoveOnClone(@, trial)]
             ELSE currentState } :
        /\ ret' = Call("makeMove", value)
        /\ takebacks' = takebacks
        /\ offers' = IF value = MOVE_OK THEN [offers EXCEPT !.sinceMove = {}] ELSE offers
        /\ IF value # MOVE_OK
           THEN /\ currentState' = previousState
                /\ UNCHANGED <<stateHistory, result>>
           ELSE \E state \in { StateAfterMove(previousState, trial.board) } :
                \E history \in { Append(stateHistory, previousState) } :
                \E termination \in { Termination(state, history) } :
                \E hashed \in { ReachesRepetitionCheck(termination) } :
                    /\ stateHistory' =
                           IF hashed
                           THEN [i \in 1..Len(history) |->
                                    [history[i] EXCEPT !.board = CacheHash(@)]]
                           ELSE history
                    /\ currentState' =
                           IF hashed
                           THEN [state EXCEPT !.board = CacheHash(@)]
                           ELSE state
                    /\ result' = termination

\* takebackMove if it took the oldest state of the history (shift) instead of
\* the newest (pop)
TakebackMoveShift ==
    IF result # ONGOING \/ Len(stateHistory) = 0
    THEN /\ ret' = Call("takebackMove", "false")
         /\ UNCHANGED <<game, takebacks, offers>>
    ELSE /\ currentState' = [stateHistory[1] EXCEPT !.board = RecalculateAllPiecesMoves(@)]
         /\ stateHistory' = SubSeq(stateHistory, 2, Len(stateHistory))
         /\ result' = result
         /\ ret' = Call("takebackMove", "undefined")
         /\ takebacks' = takebacks + 1
         /\ offers' = offers

\* Game.takebackMove
TakebackMove ==
    IF result # ONGOING \/ Len(stateHistory) = 0
    THEN /\ ret' = Call("takebackMove", "false")
         /\ UNCHANGED <<game, takebacks, offers>>
    ELSE /\ currentState' =
                [stateHistory[Len(stateHistory)] EXCEPT !.board = RecalculateAllPiecesMoves(@)]
         /\ stateHistory' = SubSeq(stateHistory, 1, Len(stateHistory) - 1)
         /\ result' = result
         /\ ret' = Call("takebackMove", "undefined")
         /\ takebacks' = takebacks + 1
         /\ offers' = offers

\* isConcluded if it knew only the results that makeMove's own chain sets
IsConcludedByTheBoard ==
    result \in {WHITE_MATED, BLACK_MATED, STALEMATED, INSUFFICIENT_MATERIAL,
                THREEFOLD_REPETITION, FIFTY_MOVES}

\* Game.isConcluded
IsConcluded == result # ONGOING

\* Game.resign
Resign(color) ==
    IF IsConcluded
    THEN /\ ret' = Call("resign", "false")
         /\ UNCHANGED <<game, takebacks, offers>>
    ELSE /\ result' = IF color = WHITE THEN WHITE_RESIGNED ELSE BLACK_RESIGNED
         /\ ret' = Call("resign", "true")
         /\ UNCHANGED <<currentState, stateHistory, takebacks, offers>>

\* offerDraw if one colour's offer were enough to agree the draw
OfferDrawAgreedByOne(color) ==
    IF IsConcluded
    THEN /\ ret' = Call("offerDraw", "false")
         /\ UNCHANGED <<game, takebacks, offers>>
    ELSE LET s1 == IF color = WHITE
                   THEN [currentState EXCEPT !.whiteOffersDraw = TRUE]
                   ELSE currentState
             s2 == IF color = BLACK
                   THEN [s1 EXCEPT !.blackOffersDraw = TRUE]
                   ELSE s1
         IN  /\ currentState' = s2
             /\ result' = IF s2.whiteOffersDraw \/ s2.blackOffersDraw
                          THEN DRAW_AGREED
                          ELSE result
             /\ ret' = Call("offerDraw", "true")
             /\ offers' = [sinceReset |-> offers.sinceReset \cup {color},
                           sinceMove |-> offers.sinceMove \cup {color}]
             /\ UNCHANGED <<stateHistory, takebacks>>

\* Game.offerDraw
OfferDraw(color) ==
    IF IsConcluded
    THEN /\ ret' = Call("offerDraw", "false")
         /\ UNCHANGED <<game, takebacks, offers>>
    ELSE LET s1 == IF color = WHITE
                   THEN [currentState EXCEPT !.whiteOffersDraw = TRUE]
                   ELSE currentState
             s2 == IF color = BLACK
                   THEN [s1 EXCEPT !.blackOffersDraw = TRUE]
                   ELSE s1
         IN  /\ currentState' = s2
             /\ result' = IF s2.whiteOffersDraw /\ s2.blackOffersDraw
                          THEN DRAW_AGREED
                          ELSE result
             /\ ret' = Call("offerDraw", "true")
             /\ offers' = [sinceReset |-> offers.sinceReset \cup {color},
                            sinceMove |-> offers.sinceMove \cup {color}]
             /\ UNCHANGED <<stateHistory, takebacks>>

\* getWinnerColor with the two colours exchanged
GetWinnerColorOfTheLoser ==
    CASE result \in {WHITE_MATED, WHITE_RESIGNED, WHITE_FLAGGED} -> WHITE
      [] result \in {BLACK_MATED, BLACK_RESIGNED, BLACK_FLAGGED} -> BLACK
      [] result \in {ONGOING, STALEMATED, INSUFFICIENT_MATERIAL, DRAW_AGREED,
                     THREEFOLD_REPETITION, FIFTY_MOVES} -> ""

\* Game.getWinnerColor ("" is null)
GetWinnerColor ==
    CASE result \in {WHITE_MATED, WHITE_RESIGNED, WHITE_FLAGGED} -> BLACK
      [] result \in {BLACK_MATED, BLACK_RESIGNED, BLACK_FLAGGED} -> WHITE
      [] result \in {ONGOING, STALEMATED, INSUFFICIENT_MATERIAL, DRAW_AGREED,
                     THREEFOLD_REPETITION, FIFTY_MOVES} -> ""

(***************************************************************************)
(* The callers: bounded sets of calls                                      *)
(***************************************************************************)
\* a makeMove call: from, to, extra ("" is a call without extra)
In(fromFile, fromRank, toFile, toRank, extra) ==
    [from |-> Sq(fromFile, fromRank), to |-> Sq(toFile, toRank), extra |-> extra]

\* the longest game played under Spec, in half-moves
MaxPly == 4

\* the number of moves taken back under Spec
MaxTakebacks == 2

\* draw offers are made under Spec before this many half-moves are played
MaxOfferPly == 1

\* The calls of Spec: 1. e4 f6 2. Qh5+ and then 2... g6, or 2... f5, which leaves
\* the king in check; 1... g6; f6-f5 names an empty square before ... f6, and
\* the pawn on e2 blocks Qd1-h5 before 1. e4.
InputMoves ==
    { In(5, 2, 5, 4, ""), In(6, 7, 6, 6, ""), In(4, 1, 8, 5, ""), In(7, 7, 7, 6, ""),
      In(6, 6, 6, 5, "") }

\* the calls that made the moves of the game so far, oldest first
PlayedMoves ==
    [i \in 1..Len(stateHistory) |->
        LET after == IF i < Len(stateHistory) THEN stateHistory[i + 1] ELSE currentState
        IN  [from |-> after.board.lastMove.from,
             to |-> after.board.lastMove.to,
             extra |-> after.board.lastMove.extra]]

MakeMoveCall(inputs, maxPly) ==
    /\ Len(stateHistory) < maxPly
    /\ \E m \in inputs : MakeMove(m.from, m.to, m.extra)

TakebackMoveCall(maxTakebacks) ==
    /\ takebacks < maxTakebacks
    /\ TakebackMove

ResignCall == \E color \in {WHITE, BLACK} : Resign(color)

OfferDrawCall(maxOfferPly) ==
    /\ Len(stateHistory) < maxOfferPly
    /\ \E color \in {WHITE, BLACK} : OfferDraw(color)

Next ==
    \/ MakeMoveCall(InputMoves, MaxPly)
    \/ TakebackMoveCall(MaxTakebacks)
    \/ ResignCall
    \/ OfferDrawCall(MaxOfferPly)
    \/ Reset

Spec == Init /\ [][Next]_vars

\* the games of Spec without takebacks
NextCalls ==
    \/ MakeMoveCall(InputMoves, MaxPly)
    \/ ResignCall
    \/ OfferDrawCall(MaxOfferPly)

SpecCalls == Init /\ [][NextCalls]_vars

\* 1. e4 e5 2. Bc4 Nc6 3. Qh5 Nf6 4. Qxf7#
ScholarsMate ==
    << In(5, 2, 5, 4, ""), In(5, 7, 5, 5, ""), In(6, 1, 3, 4, ""), In(2, 8, 3, 6, ""),
       In(4, 1, 8, 5, ""), In(7, 8, 6, 6, ""), In(8, 5, 6, 7, "") >>

\* 1. e3 a5 2. Qh5 Ra6 3. Qxa5 h5 4. h4 Rah6 5. e4 Nc6 6. e5 Nb8 7. g4 Nc6
\* 8. g5 Nb8 9. Qxc7 f6 10. Qxd7+ Kf7 11. Qxb7 Qd3 12. Qxb8 Qh7 13. Qxc8 Kg6
\* 14. Qe6: Black, not in check, has no move
StalemateGame ==
    << In(5, 2, 5, 3, ""), In(1, 7, 1, 5, ""), In(4, 1, 8, 5, ""), In(1, 8, 1, 6, ""),
       In(8, 5, 1, 5, ""), In(8, 7, 8, 5, ""), In(8, 2, 8, 4, ""), In(1, 6, 8, 6, ""),
       In(5, 3, 5, 4, ""), In(2, 8, 3, 6, ""), In(5, 4, 5, 5, ""), In(3, 6, 2, 8, ""),
       In(7, 2, 7, 4, ""), In(2, 8, 3, 6, ""), In(7, 4, 7, 5, ""), In(3, 6, 2, 8, ""),
       In(1, 5, 3, 7, ""), In(6, 7, 6, 6, ""), In(3, 7, 4, 7, ""), In(5, 8, 6, 7, ""),
       In(4, 7, 2, 7, ""), In(4, 8, 4, 3, ""), In(2, 7, 2, 8, ""), In(4, 3, 8, 7, ""),
       In(2, 8, 3, 8, ""), In(6, 7, 7, 6, ""), In(3, 8, 5, 6, "") >>

\* The calls of SpecMate in a game of n half-moves: move n + 1 of either game,
\* or move n + 2 (which the side to move cannot make).
MateCalls ==
    { moves[j] : moves \in {m \in {ScholarsMate, StalemateGame} :
                               Len(stateHistory) + 1 <= Len(m)},
                j \in {Len(stateHistory) + 1} } \cup
    { moves[j] : moves \in {m \in {ScholarsMate, StalemateGame} :
                               Len(stateHistory) + 2 <= Len(m)},
                j \in {Len(stateHistory) + 2} }

NextMate ==
    \/ MakeMoveCall(MateCalls, Len(StalemateGame))
    \/ Reset

SpecMate == Init /\ [][NextMate]_vars

\* Knight moves: Nb1-c3-b1 and Nb8-c6-b8 repeat the starting position;
\* 1. Nf3 Nc6 2. Ne5 Nxe5 3. Nc3 Nc6 4. Nb1 ends in a position that lacks a
\* knight which earlier positions have.
RepetitionMoves ==
    { In(2, 1, 3, 3, ""), In(3, 3, 2, 1, ""), In(2, 8, 3, 6, ""), In(3, 6, 2, 8, ""),
      In(7, 1, 6, 3, ""), In(6, 3, 5, 5, ""), In(3, 6, 5, 5, ""), In(5, 5, 3, 6, "") }

\* the longest game played under SpecRepetition, in half-moves
MaxRepetitionPly == 8

NextRepetition == MakeMoveCall(RepetitionMoves, MaxRepetitionPly)

SpecRepetition == Init /\ [][NextRepetition]_vars

\* 1. Nf3 Nc6 2. Nd4 Nf6 3. Nf3 Ne5 4. Nxe5: the last capture of the long games
KnightTrade ==
    << In(7, 1, 6, 3, ""), In(2, 8, 3, 6, ""), In(6, 3, 4, 4, ""), In(7, 8, 6, 6, ""),
       In(4, 4, 6, 3, ""), In(3, 6, 5, 5, ""), In(6, 3, 5, 5, "") >>

\* the white knight's round trip Ne5-g6-h4-f5-h6-g4-e5
WhiteLap ==
    << In(5, 5, 7, 6, ""), In(7, 6, 8, 4, ""), In(8, 4, 6, 5, ""), In(6, 5, 8, 6, ""),
       In(8, 6, 7, 4, ""), In(7, 4, 5, 5, "") >>

\* the black knight's round trip Nf6-h5-g3-e4-g5-e6-f4-d5-f6
BlackLap ==
    << In(6, 6, 8, 5, ""), In(8, 5, 7, 3, ""), In(7, 3, 5, 4, ""), In(5, 4, 7, 5, ""),
       In(7, 5, 5, 6, ""), In(5, 6, 6, 4, ""), In(6, 4, 4, 5, ""), In(4, 5, 6, 6, "") >>

\* Black and White in turn, Black first: four white laps and three black laps,
\* after which both knights are back for the first time
KnightLaps ==
    [k \in 1..(2 * 4 * Len(WhiteLap)) |->
        IF k % 2 = 1
        THEN BlackLap[(((k - 1) \div 2) % Len(BlackLap)) + 1]
        ELSE WhiteLap[(((k \div 2) - 1) % Len(WhiteLap)) + 1]]

\* the trade, the laps, and then the knights start another lap
LongGame == KnightTrade \o KnightLaps \o << BlackLap[1], WhiteLap[1] >>

\* the trade, the laps, and then ... Ng8 and Nf3
LongGameHome == KnightTrade \o KnightLaps \o << In(6, 6, 7, 8, ""), In(5, 5, 6, 3, "") >>

\* The calls of SpecFifty in a game of n half-moves: the next move of either
\* long game, or the move after it (which the side to move cannot make).
LongGameCalls ==
    { moves[j] : moves \in {LongGame, LongGameHome},
                j \in {i \in {Len(stateHistory) + 1, Len(stateHistory) + 2} :
                          i <= Len(LongGame)} }

NextFifty == MakeMoveCall(LongGameCalls, Len(LongGame))

SpecFifty == Init /\ [][NextFifty]_vars

\* The calls of SpecEnPassant. 1. e4 h6 2. e5 d5 3. exd6 takes en passant at
\* once; after 3. h3 d4 or 1. e4 d5 2. e5 the capture e5xd6 comes too late.
\* For Black: 1. h3 d5 2. e4 d4 3. c4 dxc3, and 1. c4 d5 2. h3 d4 3. e4 dxc3.
EnPassantMoves ==
    { In(5, 2, 5, 4, ""), In(5, 4, 5, 5, ""), In(8, 2, 8, 3, ""), In(5, 5, 4, 6, ""),
      In(3, 2, 3, 4, ""),
      In(4, 7, 4, 5, ""), In(8, 7, 8, 6, ""), In(4, 5, 4, 4, ""), In(4, 4, 3, 3, "") }

\* the longest game played under SpecEnPassant, in half-moves
MaxEnPassantPly == 7

NextEnPassant == MakeMoveCall(EnPassantMoves, MaxEnPassantPly)

SpecEnPassant == Init /\ [][NextEnPassant]_vars

\* 1. Nf3 h5 2. e3 h4 3. Be2 h3 4. Nc3 hxg2 5. O-O: the pawn on g2 attacks f1
PawnOnG2Game ==
    << In(7, 1, 6, 3, ""), In(8, 7, 8, 5, ""), In(5, 2, 5, 3, ""), In(8, 5, 8, 4, ""),
       In(6, 1, 5, 2, ""), In(8, 4, 8, 3, ""), In(2, 1, 3, 3, ""), In(8, 3, 7, 2, ""),
       In(5, 1, 7, 1, "") >>

\* 1. g4 b6 2. Nh3 Bb7 3. a4 Bxh1 4. Ra3 Bd5 5. Rg3 Bb7 6. Rg1 a6 7. Rh1 a5
\* 8. Bg2 h6 9. O-O: the rook on h1 is the one that started on a1
ArrivedRookGame ==
    << In(7, 2, 7, 4, ""), In(2, 7, 2, 6, ""), In(7, 1, 8, 3, ""), In(3, 8, 2, 7, ""),
       In(1, 2, 1, 4, ""), In(2, 7, 8, 1, ""), In(1, 1, 1, 3, ""), In(8, 1, 4, 5, ""),
       In(1, 3, 7, 3, ""), In(4, 5, 2, 7, ""), In(7, 3, 7, 1, ""), In(1, 7, 1, 6, ""),
       In(7, 1, 8, 1, ""), In(1, 6, 1, 5, ""), In(6, 1, 7, 2, ""), In(8, 7, 8, 6, ""),
       In(5, 1, 7, 1, "") >>

\* 1. e3 e6 2. Be2 Qg5 3. Nf3 Qxg2: the queen attacks f1 and g1
QueenOnG2Game ==
    << In(5, 2, 5, 3, ""), In(5, 7, 5, 6, ""), In(6, 1, 5, 2, ""), In(4, 8, 7, 5, ""),
       In(7, 1, 6, 3, ""), In(7, 5, 7, 2, "") >>

\* 1. e3 e6 2. Be2 a6 3. Nf3 a5 4. d4 Bb4+: the king is in check
CheckOnE1Game ==
    << In(5, 2, 5, 3, ""), In(5, 7, 5, 6, ""), In(6, 1, 5, 2, ""), In(1, 7, 1, 6, ""),
       In(7, 1, 6, 3, ""), In(1, 6, 1, 5, ""), In(4, 2, 4, 4, ""), In(6, 8, 2, 4, "") >>

\* 1. e3 a6 2. Be2 a5 3. Nf3 a4 4. Kf1 a3 5. Ke1 h6: the king has moved
KingWalkGame ==
    << In(5, 2, 5, 3, ""), In(1, 7, 1, 6, ""), In(6, 1, 5, 2, ""), In(1, 6, 1, 5, ""),
       In(7, 1, 6, 3, ""), In(1, 5, 1, 4, ""), In(5, 1, 6, 1, ""), In(1, 4, 1, 3, ""),
       In(6, 1, 5, 1, ""), In(8, 7, 8, 6, "") >>

\* 1. e3 a6 2. Be2 a5 3. Nf3 a4 4. Rg1 a3 5. Rh1 h6: the rook has moved
RookWalkGame ==
    << In(5, 2, 5, 3, ""), In(1, 7, 1, 6, ""), In(6, 1, 5, 2, ""), In(1, 6, 1, 5, ""),
       In(7, 1, 6, 3, ""), In(1, 5, 1, 4, ""), In(8, 1, 7, 1, ""), In(1, 4, 1, 3, ""),
       In(7, 1, 8, 1, ""), In(8, 7, 8, 6, "") >>

\* 1. d4 d5 2. Nc3 Nc6 3. Bf4 Bf5 4. Qd2 Qd7 5. O-O-O O-O-O
LongCastleGame ==
    << In(4, 2, 4, 4, ""), In(4, 7, 4, 5, ""), In(2, 1, 3, 3, ""), In(2, 8, 3, 6, ""),
       In(3, 1, 6, 4, ""), In(3, 8, 6, 5, ""), In(4, 1, 4, 2, ""), In(4, 8, 4, 7, ""),
       In(5, 1, 3, 1, ""), In(5, 8, 3, 8, "") >>

\* 1. e4 e5 2. Nf3 Nf6 3. Be2 Be7 4. O-O O-O
ShortCastleGame ==
    << In(5, 2, 5, 4, ""), In(5, 7, 5, 5, ""), In(7, 1, 6, 3, ""), In(7, 8, 6, 6, ""),
       In(6, 1, 5, 2, ""), In(6, 8, 5, 7, ""), In(5, 1, 7, 1, ""), In(5, 8, 7, 8, "") >>

CastlingGames ==
    { PawnOnG2Game, ArrivedRookGame, QueenOnG2Game, CheckOnE1Game, KingWalkGame,
      RookWalkGame, LongCastleGame, ShortCastleGame }

\* E1G1, E1C1, E8G8, E8C8
CastlingAttempts ==
    { In(5, 1, 7, 1, ""), In(5, 1, 3, 1, ""), In(5, 8, 7, 8, ""), In(5, 8, 3, 8, "") }

\* The calls of SpecCastling in a game of n half-moves: move n + 1 of each of
\* the games that began with the moves played, and the four castling moves.
CastlingCalls ==
    { moves[j] : moves \in {m \in CastlingGames :
                               /\ Len(stateHistory) + 1 <= Len(m)
                               /\ SubSeq(m, 1, Len(stateHistory)) = PlayedMoves},
                j \in {Len(stateHistory) + 1} } \cup CastlingAttempts

NextCastling == MakeMoveCall(CastlingCalls, Len(ArrivedRookGame))

SpecCastling == Init /\ [][NextCastling]_vars

\* 1. a3 Nf6 2. a4 Ne4 3. a5 Nxf2 4. a6 Nxh1: White has lost the rook on h1
\* and kept the right to castle short
RookLossGame ==
    << In(1, 2, 1, 3, ""), In(7, 8, 6, 6, ""), In(1, 3, 1, 4, ""), In(6, 6, 5, 4, ""),
       In(1, 4, 1, 5, ""), In(5, 4, 6, 2, ""), In(1, 5, 1, 6, ""), In(6, 2, 8, 1, "") >>

\* The calls of SpecAttack in a game of n half-moves: move n + 1 of each of
\* the castling games and of the rook-loss game that began with the moves
\* played, and the four castling moves.
AttackCalls ==
    { moves[j] : moves \in {m \in CastlingGames \cup {RookLossGame} :
                               /\ Len(stateHistory) + 1 <= Len(m)
                               /\ SubSeq(m, 1, Len(stateHistory)) = PlayedMoves},
                j \in {Len(stateHistory) + 1} } \cup CastlingAttempts

NextAttack == MakeMoveCall(AttackCalls, Len(ArrivedRookGame))

SpecAttack == Init /\ [][NextAttack]_vars

\* 1. h4 g5 2. hxg5 h6 3. gxh6 a6 4. h7 a5 5. hxg8=Q
PromotionGame ==
    << In(8, 2, 8, 4, ""), In(7, 7, 7, 5, ""), In(8, 4, 7, 5, ""), In(8, 7, 8, 6, ""),
       In(7, 5, 8, 6, ""), In(1, 7, 1, 6, ""), In(8, 6, 8, 7, ""), In(1, 6, 1, 5, ""),
       In(8, 7, 7, 8, "Q") >>

\* 1. e4 h6 2. e5 d5 3. exd6
EnPassantGame ==
    << In(5, 2, 5, 4, ""), In(8, 7, 8, 6, ""), In(5, 4, 5, 5, ""), In(4, 7, 4, 5, ""),
       In(5, 5, 4, 6, "") >>

\* 1. e4 f6 2. Qh5+ a6, which leaves the king in check, 3. Qxe8
KingHuntGame ==
    << In(5, 2, 5, 4, ""), In(6, 7, 6, 6, ""), In(4, 1, 8, 5, ""), In(1, 7, 1, 6, ""),
       In(8, 5, 5, 8, "") >>

\* 1. e4 f6 2. Qh5+ g6 3. Qxe8, through the pawn on g6
BlockedHuntGame ==
    << In(5, 2, 5, 4, ""), In(6, 7, 6, 6, ""), In(4, 1, 8, 5, ""), In(7, 7, 7, 6, ""),
       In(8, 5, 5, 8, "") >>

PieceGames ==
    CastlingGames \cup { PromotionGame, EnPassantGame, KingHuntGame, BlockedHuntGame }

\* O-O of White, O-O-O of Black, Ra1xa2 and Ke8xd8
PieceAttempts ==
    { In(5, 1, 7, 1, ""), In(5, 8, 3, 8, ""), In(1, 1, 1, 2, ""), In(5, 8, 4, 8, "") }

\* The calls of SpecPieces in a game of n half-moves: move n + 1 of each of the
\* games that began with the moves played, and the attempts.
PieceCalls ==
    { moves[j] : moves \in {m \in PieceGames :
                               /\ Len(stateHistory) + 1 <= Len(m)
                               /\ SubSeq(m, 1, Len(stateHistory)) = PlayedMoves},
                j \in {Len(stateHistory) + 1} } \cup PieceAttempts

MaxPieceTakebacks == 1

NextPieces ==
    \/ MakeMoveCall(PieceCalls, Len(ArrivedRookGame))
    \/ TakebackMoveCall(MaxPieceTakebacks)

SpecPieces == Init /\ [][NextPieces]_vars

\* 1. a3 h5 2. a4 h4 3. a5 h3 4. a6 hxg2 5. axb7 gxh1=Q 6. bxa8=Q
TwoPromotionsGame ==
    << In(1, 2, 1, 3, ""), In(8, 7, 8, 5, ""), In(1, 3, 1, 4, ""), In(8, 5, 8, 4, ""),
       In(1, 4, 1, 5, ""), In(8, 4, 8, 3, ""), In(1, 5, 1, 6, ""), In(8, 3, 7, 2, ""),
       In(1, 6, 2, 7, ""), In(7, 2, 8, 1, "Q"), In(2, 7, 1, 8, "Q") >>

\* what the callers pass as extra with a promoting move: nothing, the letters
\* of "QRBKN", another letter and two letters
PromotionExtras == {"", "Q", "R", "B", "N", "K", "X", "QQ"}

\* the two games with every extra on each promoting move
PromotionGames ==
    { [PromotionGame EXCEPT ![9].extra = e] : e \in PromotionExtras }
    \cup { [TwoPromotionsGame EXCEPT ![10].extra = e, ![11].extra = f] :
              e \in PromotionExtras, f \in PromotionExtras }

\* The calls of SpecPromotion in a game of n half-moves: move n + 1 of each of
\* the games that began with the moves played.
PromotionCalls ==
    { moves[j] : moves \in {m \in PromotionGames :
                               /\ Len(stateHistory) + 1 <= Len(m)
                               /\ SubSeq(m, 1, Len(stateHistory)) = PlayedMoves},
                j \in {Len(stateHistory) + 1} }

MaxPromotionTakebacks == 1

NextPromotion ==
    \/ MakeMoveCall(PromotionCalls, Len(TwoPromotionsGame))
    \/ TakebackMoveCall(MaxPromotionTakebacks)

SpecPromotion == Init /\ [][NextPromotion]_vars

\* Nb1-a3-c4-b6-a4-c3-b1 and Ng8-h6-f5-d4-e6-g5-e4-f6-g8
LongWhiteLap ==
    << In(2, 1, 1, 3, ""), In(1, 3, 3, 4, ""), In(3, 4, 2, 6, ""), In(2, 6, 1, 4, ""),
       In(1, 4, 3, 3, ""), In(3, 3, 2, 1, "") >>

LongBlackLap ==
    << In(7, 8, 8, 6, ""), In(8, 6, 6, 5, ""), In(6, 5, 4, 4, ""), In(4, 4, 5, 6, ""),
       In(5, 6, 7, 5, ""), In(7, 5, 5, 4, ""), In(5, 4, 6, 6, ""), In(6, 6, 7, 8, "") >>

\* Nb1-a3-b5-c3-b1 and Ng8-h6-f5-d6-e4-f6-g8
ShortWhiteLap ==
    << In(2, 1, 1, 3, ""), In(1, 3, 2, 5, ""), In(2, 5, 3, 3, ""), In(3, 3, 2, 1, "") >>

ShortBlackLap ==
    << In(7, 8, 8, 6, ""), In(8, 6, 6, 5, ""), In(6, 5, 4, 6, ""), In(4, 6, 5, 4, ""),
       In(5, 4, 6, 6, ""), In(6, 6, 7, 8, "") >>

\* n half-moves of White and Black in turn, White first, each going round its
\* lap
Laps(whiteLap, blackLap, n) ==
    [k \in 1..n |->
        IF k % 2 = 1
        THEN whiteLap[(((k - 1) \div 2) % Len(whiteLap)) + 1]
        ELSE blackLap[(((k \div 2) - 1) % Len(blackLap)) + 1]]

\* 1. f3 a6 2. g4 e5, then 49 knight moves during which no position comes a
\* third time, then Qh4#: the mating move is half-move 50 since the last pawn
\* move
FiftyMateGame ==
    << In(6, 2, 6, 3, ""), In(1, 7, 1, 6, ""), In(7, 2, 7, 4, ""), In(5, 7, 5, 5, "") >>
    \o Laps(LongWhiteLap, LongBlackLap, 49) \o << In(4, 8, 8, 4, "") >>

\* 1. f3 e5 2. g4 a6 3. Bg2 Bc5, then 48 knight moves: the position after
\* 3... Bc5 comes again after 24 and after 48 of them, which is half-move 50
\* since the last pawn move
RepetitionFiftyGame ==
    << In(6, 2, 6, 3, ""), In(5, 7, 5, 5, ""), In(7, 2, 7, 4, ""), In(1, 7, 1, 6, ""),
       In(6, 1, 7, 2, ""), In(6, 8, 3, 5, "") >>
    \o Laps(ShortWhiteLap, ShortBlackLap, 48)

\* 1. Nc3 Nc6 2. Nb1 Nb8 3. Nc3 Nc6 4. Nb1 Nb8: the starting position a third
\* time
RepetitionGame ==
    << In(2, 1, 3, 3, ""), In(2, 8, 3, 6, ""), In(3, 3, 2, 1, ""), In(3, 6, 2, 8, ""),
       In(2, 1, 3, 3, ""), In(2, 8, 3, 6, ""), In(3, 3, 2, 1, ""), In(3, 6, 2, 8, "") >>

\* 1. Nf3 Nc6 2. Ne5 Nb8 3. Nc6 Nxc6: the last position is new, and differs
\* from two earlier ones only by the white knight they still have
KnightLossGame ==
    << In(7, 1, 6, 3, ""), In(2, 8, 3, 6, ""), In(6, 3, 5, 5, ""), In(3, 6, 2, 8, ""),
       In(5, 5, 3, 6, ""), In(2, 8, 3, 6, "") >>

TerminationGames ==
    { FiftyMateGame, RepetitionFiftyGame, RepetitionGame, KnightLossGame, LongGame,
      LongGameHome, ScholarsMate, StalemateGame }

\* The calls of SpecTermination in a game of n half-moves: move n + 1 of each
\* of the games that began with the moves played.
TerminationCalls ==
    { moves[j] : moves \in {m \in TerminationGames :
                               /\ Len(stateHistory) + 1 <= Len(m)
                               /\ SubSeq(m, 1, Len(stateHistory)) = PlayedMoves},
                j \in {Len(stateHistory) + 1} }

NextTermination == MakeMoveCall(TerminationCalls, Len(LongGame))

SpecTermination == Init /\ [][NextTermination]_vars

\* the games of SpecClock: pawn moves, a capture en passant and a promotion,
\* quiet moves, castling and the capture of a knight by a knight
ClockGames == { PromotionGame, EnPassantGame, ShortCastleGame, KnightTrade }

\* The calls of SpecClock in a game of n half-moves: move n + 1 of each of the
\* games that began with the moves played.
ClockCalls ==
    { moves[j] : moves \in {m \in ClockGames :
                               /\ Len(stateHistory) + 1 <= Len(m)
                               /\ SubSeq(m, 1, Len(stateHistory)) = PlayedMoves},
                j \in {Len(stateHistory) + 1} }

MaxClockTakebacks == 1

MaxClockOfferPly == 2

NextClock ==
    \/ MakeMoveCall(ClockCalls, Len(PromotionGame))
    \/ TakebackMoveCall(MaxClockTakebacks)
    \/ ResignCall
    \/ OfferDrawCall(MaxClockOfferPly)
    \/ Reset

SpecClock == Init /\ [][NextClock]_vars

\* Two boards made by new Board(), held as the board of the current state and
\* the board of a state in the history, and the calls made on them in
\* SpecHash: setPiece and removePieceAt on either, makeMoveIfValid and
\* calculateHash on the first.
InitHash ==
    /\ currentState = GameState(NewBoard, 0, WHITE, FALSE, FALSE)
    /\ stateHistory = << GameState(NewBoard, 0, WHITE, FALSE, FALSE) >>
    /\ result = ONGOING
    /\ ret = Call("new Board", "undefined")
    /\ takebacks = 0
    /\ offers = NoOffers

\* a white rook for a1, a black knight and a black queen for h8
HashPieces ==
    { [type |-> ROOK, color |-> WHITE, square |-> Sq(1, 1)],
      [type |-> KNIGHT, color |-> BLACK, square |-> Sq(8, 8)],
      [type |-> QUEEN, color |-> BLACK, square |-> Sq(8, 8)] }

HashSquares == { Sq(1, 1), Sq(8, 8) }

\* Ra1-a2, Ra2-a1, Nh8-g6, Ng6-h8
HashMoves ==
    { In(1, 1, 1, 2, ""), In(1, 2, 1, 1, ""), In(8, 8, 7, 6, ""), In(7, 6, 8, 8, "") }

SetPieceCall ==
    \E p \in HashPieces :
        \/ /\ currentState' =
                  [currentState EXCEPT !.board =
                      SetPiece(@, Instantiate(p.type, p.color, @.castlingRights, p.square))]
           /\ UNCHANGED stateHistory
        \/ /\ stateHistory' =
                  [stateHistory EXCEPT ![1].board =
                      SetPiece(@, Instantiate(p.type, p.color, @.castlingRights, p.square))]
           /\ UNCHANGED currentState
    /\ ret' = Call("setPiece", "undefined")
    /\ UNCHANGED <<result, takebacks, offers>>

RemovePieceAtCall ==
    \E location \in HashSquares :
        \/ /\ currentState' = [currentState EXCEPT !.board = RemovePieceAt(@, location)]
           /\ UNCHANGED stateHistory
        \/ /\ stateHistory' = [stateHistory EXCEPT ![1].board = RemovePieceAt(@, location)]
           /\ UNCHANGED currentState
    /\ ret' = Call("removePieceAt", "undefined")
    /\ UNCHANGED <<result, takebacks, offers>>

MakeMoveIfValidCall ==
    \E m \in HashMoves :
    \E trial \in { MakeMoveIfValid(currentState.board, m.from, m.to, m.extra, 1) } :
        /\ currentState' = [currentState EXCEPT !.board = trial.board]
        /\ ret' = Call("makeMoveIfValid", IF trial.ok THEN "true" ELSE "false")
        /\ UNCHANGED <<stateHistory, result, takebacks, offers>>

CalculateHashCall ==
    /\ ret' = Call("calculateHash", CalculateHash(currentState.board))
    /\ currentState' = [currentState EXCEPT !.board = CacheHash(@)]
    /\ UNCHANGED <<stateHistory, result, takebacks, offers>>

NextHash ==
    \/ SetPieceCall
    \/ RemovePieceAtCall
    \/ MakeMoveIfValidCall
    \/ CalculateHashCall

SpecHash == InitHash /\ [][NextHash]_vars

\* 1. a3 d5 2. a4 d4 3. c4 dxc3
BlackEnPassantGame ==
    << In(1, 2, 1, 3, ""), In(4, 7, 4, 5, ""), In(1, 3, 1, 4, ""), In(4, 5, 4, 4, ""),
       In(3, 2, 3, 4, ""), In(4, 4, 3, 3, "") >>

\* 1. e4 h6 2. e5 d5 3. a3 a6 4. exd6, a move too late
LateEnPassantGame ==
    << In(5, 2, 5, 4, ""), In(8, 7, 8, 6, ""), In(5, 4, 5, 5, ""), In(4, 7, 4, 5, ""),
       In(1, 2, 1, 3, ""), In(1, 7, 1, 6, ""), In(5, 5, 4, 6, "") >>

\* 1. Na3 d5 2. Nc4 d4 3. Ne3 h6 4. e4, over the knight, dxe3
KnightOnPassedSquareGame ==
    << In(2, 1, 1, 3, ""), In(4, 7, 4, 5, ""), In(1, 3, 3, 4, ""), In(4, 5, 4, 4, ""),
       In(3, 4, 5, 3, ""), In(8, 7, 8, 6, ""), In(5, 2, 5, 4, ""), In(4, 4, 5, 3, "") >>

PassingGames ==
    { EnPassantGame, BlackEnPassantGame, LateEnPassantGame, KnightOnPassedSquareGame }

\* captures towards the d, c and e file that the callers try at any time
PassingAttempts ==
    { In(5, 5, 4, 6, ""), In(4, 4, 3, 3, ""), In(4, 4, 5, 3, ""), In(5, 4, 4, 5, "") }

\* The calls of SpecPassing in a game of n half-moves: move n + 1 of each of
\* the games that began with the moves played, and the attempts.
PassingCalls ==
    { moves[j] : moves \in {m \in PassingGames :
                               /\ Len(stateHistory) + 1 <= Len(m)
                               /\ SubSeq(m, 1, Len(stateHistory)) = PlayedMoves},
                j \in {Len(stateHistory) + 1} } \cup PassingAttempts

MaxPassingTakebacks == 1

NextPassing ==
    \/ MakeMoveCall(PassingCalls, Len(KnightOnPassedSquareGame))
    \/ TakebackMoveCall(MaxPassingTakebacks)

SpecPassing == Init /\ [][NextPassing]_vars

\* The moves of the games of SpecTempo: 1. e3 e6, then the white queen goes
\* round d1-e2-f3-d1 in three moves or d1-e2-d1 in two while the black
\* knight goes g8-f6-g8.
TempoMoves ==
    { In(5, 2, 5, 3, ""), In(5, 7, 5, 6, ""), In(4, 1, 5, 2, ""), In(5, 2, 6, 3, ""),
      In(6, 3, 4, 1, ""), In(5, 2, 4, 1, ""), In(7, 8, 6, 6, ""), In(6, 6, 7, 8, "") }

\* the longest game played under SpecTempo, in half-moves
MaxTempoPly == 11

NextTempo == MakeMoveCall(TempoMoves, MaxTempoPly)

SpecTempo == Init /\ [][NextTempo]_vars

\* 1. f3 e5 2. g4 Qh4 mate
FoolsMate ==
    << In(6, 2, 6, 3, ""), In(5, 7, 5, 5, ""), In(7, 2, 7, 4, ""), In(4, 8, 8, 4, "") >>

\* whole games that end by mate of either colour, stalemate and repetition
ResultGames == { FoolsMate, ScholarsMate, StalemateGame, RepetitionGame }

\* The calls of SpecResults in a game of n half-moves: move n + 1 of each of
\* the games that began with the moves played.
ResultCalls ==
    { moves[j] : moves \in {m \in ResultGames :
                               /\ Len(stateHistory) + 1 <= Len(m)
                               /\ SubSeq(m, 1, Len(stateHistory)) = PlayedMoves},
                j \in {Len(stateHistory) + 1} }

MaxResultTakebacks == 1

MaxResultOfferPly == 1

NextResults ==
    \/ MakeMoveCall(ResultCalls, Len(StalemateGame))
    \/ TakebackMoveCall(MaxResultTakebacks)
    \/ ResignCall
    \/ OfferDrawCall(MaxResultOfferPly)
    \/ Reset

SpecResults == Init /\ [][NextResults]_vars

MaxFiftyTakebacks == 2

\* the callers of SpecFiftyUndo take a move back only when the clock has
\* reached this value
MinUndoClock == 45

\* the long games, with moves taken back near the fiftieth quiet move
NextFiftyUndo ==
    \/ MakeMoveCall(LongGameCalls, Len(LongGame))
    \/ (currentState.halfMoveClock >= MinUndoClock /\ TakebackMoveCall(MaxFiftyTakebacks))

SpecFiftyUndo == Init /\ [][NextFiftyUndo]_vars

\* What a colour holds besides its king, in the games of SpecMaterial
Materials ==
    { <<>>, <<BISHOP>>, <<KNIGHT>>, <<BISHOP, BISHOP>>, <<KNIGHT, KNIGHT>>,
      <<KNIGHT, KNIGHT, KNIGHT>>, <<BISHOP, KNIGHT>>, <<ROOK>>, <<QUEEN>>, <<PAWN>> }

\* A board with the kings on e1 and e8, White's other pieces on a3, b3, c3 and
\* Black's on a6, b6, c6, as play can leave it (no castling rights)
MaterialBoard(white, black) ==
    [NewBoard EXCEPT
        !.pieces = PieceTable([k \in Keys |->
            LET file == ((k - 1) \div 8) + 1
                rank == ((k - 1) % 8) + 1
            IN  CASE file = 5 /\ rank = 1 ->
                         Instantiate(KING, WHITE, NoCastlingRights, Sq(file, rank))
                  [] file = 5 /\ rank = 8 ->
                         Instantiate(KING, BLACK, NoCastlingRights, Sq(file, rank))
                  [] rank = 3 /\ file <= Len(white) ->
                         Instantiate(white[file], WHITE, NoCastlingRights, Sq(file, rank))
                  [] rank = 6 /\ file <= Len(black) ->
                         Instantiate(black[file], BLACK, NoCastlingRights, Sq(file, rank))
                  [] OTHER -> NoPiece])]

\* a game whose current board holds the given material
InitMaterial ==
    /\ \E white \in Materials : \E black \in Materials :
           currentState = GameState(MaterialBoard(white, black), 0, WHITE, FALSE, FALSE)
    /\ stateHistory = <<>>
    /\ result = ONGOING
    /\ ret = Call("", "undefined")
    /\ takebacks = 0
    /\ offers = NoOffers

\* a call of Game.checkForInsufficientMaterial
CheckForInsufficientMaterialCall ==
    /\ ret' = Call("checkForInsufficientMaterial",
                   IF CheckForInsufficientMaterial(currentState.board)
                   THEN "true" ELSE "false")
    /\ UNCHANGED <<game, takebacks, offers>>

NextMaterial == CheckForInsufficientMaterialCall

SpecMaterial == InitMaterial /\ [][NextMaterial]_vars

\* The code units of the texts given to fromString: @, A, E, H, I, `, a, e, h,
\* and the digits 0, 1, 4, 8, 9
TextUnits == {64, 65, 69, 72, 73, 96, 97, 101, 104, 48, 49, 52, 56, 57}

\* the longest text given to fromString
MaxTextLen == 3

Texts == UNION { { SubSeq(t, 1, n) : t \in [1..n -> TextUnits] } : n \in 0..MaxTextLen }

\* A new game, and the receiver or argument of the call to come: a valid
\* square (op "new Square") or a text (op "text")
InitSquare ==
    /\ currentState = GameState(SetupDefaultBoard, 0, WHITE, FALSE, FALSE)
    /\ stateHistory = <<>>
    /\ result = ONGOING
    /\ takebacks = 0
    /\ offers = NoOffers
    /\ \/ \E sq \in { Sq(file, rank) : file \in 1..8, rank \in 1..8 } :
              ret = Call("new Square", [square |-> sq, text |-> <<>>])
       \/ \E text \in Texts :
              ret = Call("text", [square |-> NoSquare, text |-> text])

\* a call of asString on the square: the square and the returned text
AsStringCall ==
    /\ ret.op = "new Square"
    /\ ret' = Call("asString", [square |-> ret.value.square,
                                text |-> AsString(ret.value.square)])
    /\ UNCHANGED <<game, takebacks, offers>>

\* a call of Square.fromString on the text: the text and the returned square
FromStringCall ==
    /\ ret.op = "text"
    /\ ret' = Call("fromString", [square |-> FromString(ret.value.text),
                                  text |-> ret.value.text])
    /\ UNCHANGED <<game, takebacks, offers>>

NextSquare ==
    \/ AsStringCall
    \/ FromStringCall

SpecSquare == InitSquare /\ [][NextSquare]_vars

(***************************************************************************)
(* What the properties compare                                             *)
(***************************************************************************)
Last(s) == s[Len(s)]

\* which piece of which colour stands on each square
Occupancy(board) ==
    [k \in Keys |-> <<board.pieces[k].type, board.pieces[k].color>>]

\* a position: occupancy, castling rights, en passant square
PositionOf(board) ==
    [occupancy |-> Occupancy(board),
     castlingRights |-> board.castlingRights,
     enPassantSquare |-> board.enPassantSquare]

\* a game state: its position, the last move, the side to move, the clock and
\* the two draw-offer flags
StateFields(state) ==
    [position |-> PositionOf(state.board),
     lastMove |-> state.board.lastMove,
     currentTurn |-> state.currentTurn,
     halfMoveClock |-> state.halfMoveClock,
     whiteOffersDraw |-> state.whiteOffersDraw,
     blackOffersDraw |-> state.blackOffersDraw]

HistoryFields(history) == [i \in 1..Len(history) |-> StateFields(history[i])]

\* the standard starting position, square by square
StartingOccupancy ==
    [k \in Keys |->
        LET file == ((k - 1) \div 8) + 1
            rank == ((k - 1) % 8) + 1
            backRank == <<ROOK, KNIGHT, BISHOP, QUEEN, KING, BISHOP, KNIGHT, ROOK>>
        IN  CASE rank = 1 -> <<backRank[file], WHITE>>
              [] rank = 2 -> <<PAWN, WHITE>>
              [] rank = 7 -> <<PAWN, BLACK>>
              [] rank = 8 -> <<backRank[file], BLACK>>
              [] OTHER -> <<"none", "none">>]

StartingPosition ==
    [occupancy |-> StartingOccupancy,
     castlingRights |-> AllCastlingRights,
     enPassantSquare |-> NoSquare]

\* the game as the caller sees it is the same before and after the step
GameUnchanged ==
    /\ result' = result
    /\ StateFields(currentState') = StateFields(currentState)
    /\ HistoryFields(stateHistory') = HistoryFields(stateHistory)

(***************************************************************************)
(* Properties                                                              *)
(***************************************************************************)
\* C1: once result is not Ongoing, makeMove returns GameEnded and makeMove,
\* takebackMove, resign and offerDraw leave result, the current state and the
\* history as they are; reset yields the starting position, an empty history,
\* White to move, clock 0 and result Ongoing.
TerminalResultIsAbsorbing ==
    [][((result # ONGOING /\ ret'.op # "reset") =>
            (/\ GameUnchanged
             /\ (ret'.op = "makeMove" => ret'.value = GAME_ENDED)))
       /\
       (ret'.op = "reset" =>
            (/\ PositionOf(currentState'.board) = StartingPosition
             /\ stateHistory' = <<>>
             /\ currentState'.currentTurn = WHITE
             /\ currentState'.halfMoveClock = 0
             /\ result' = ONGOING))]_vars

\* a makeMove call was rejected with GameEnded after a resignation
RejectedAfterResignation ==
    /\ result = BLACK_RESIGNED
    /\ ret = Call("makeMove", GAME_ENDED)
    /\ Len(stateHistory) = 2

\* C2: a makeMove call that returns anything but Ok leaves the current board,
\* the side to move, the clock, the draw-offer flags, the history and the
\* result as they were.
RejectedMoveChangesNothing ==
    [][(ret'.op = "makeMove" /\ ret'.value # MOVE_OK) => GameUnchanged]_vars

\* a move was tried on the clone, found to leave the king in check, and rejected
RejectedForSelfCheck ==
    /\ ret = Call("makeMove", IN_CHECK_AFTER_TURN)
    /\ IsInCheck(currentState.board, currentState.currentTurn)

\* the value the rejection order gives a call: each outcome with the conditions
\* under which it is the one returned
OutcomeInOrder(from, to, extra) ==
    LET ended == result # ONGOING
        piece == GetPiece(currentState.board, from)
        empty == ~Present(piece)
        notYours == piece.color # currentState.currentTurn
        trial == MakeMoveIfValid(CloneBoard(currentState.board), from, to, extra, 0)
        refused == ~trial.ok
        selfCheck == IsInCheck(trial.board, currentState.currentTurn)
    IN  CASE ended -> GAME_ENDED
          [] ~ended /\ empty -> NO_PIECE
          [] ~ended /\ ~empty /\ notYours -> NOT_YOUR_PIECE
          [] ~ended /\ ~empty /\ ~notYours /\ refused -> ILLEGAL_PIECE_MOVE
          [] ~ended /\ ~empty /\ ~notYours /\ ~refused /\ selfCheck -> IN_CHECK_AFTER_TURN
          [] OTHER -> MOVE_OK

\* C3: makeMove returns GameEnded if the game is over; otherwise NoPiece if the
\* from square is empty; otherwise NotYourPiece; otherwise IllegalMove if the
\* board refuses the move; otherwise SelfCheck if the mover's king is attacked
\* after it; and Ok exactly when none of these applies.
RejectionsInFixedOrder ==
    [][ret'.op = "makeMove" =>
          \A m \in InputMoves :
              (MakeMove(m.from, m.to, m.extra) =>
                  ret'.value = OutcomeInOrder(m.from, m.to, m.extra))]_vars

\* GameEnded was returned to a call that also names an empty square
GameEndedBeforeNoPiece ==
    /\ ret = Call("makeMove", GAME_ENDED)
    /\ \E m \in InputMoves : ~Present(GetPiece(currentState.board, m.from))

\* C4: the king of the side that is not to move is never attacked.
MoverNeverLeftInCheck ==
    ~IsInCheck(currentState.board, Swap(currentState.currentTurn))

\* Black answered 2. Qh5+ with 2... g6, and it is White's turn
CheckWasAnswered ==
    /\ ret = Call("makeMove", MOVE_OK)
    /\ currentState.currentTurn = WHITE
    /\ Occupancy(currentState.board)[KeyOf(Sq(8, 5))] = <<QUEEN, WHITE>>
    /\ Occupancy(currentState.board)[KeyOf(Sq(7, 6))] = <<PAWN, BLACK>>
    /\ Occupancy(currentState.board)[KeyOf(Sq(6, 6))] = <<PAWN, BLACK>>

\* the history without its newest entry
Front(history) == SubSeq(history, 1, Len(history) - 1)

\* a successful makeMove adds one entry to the history: the state it found
MoveAddsThePreMoveState ==
    (ret'.op = "makeMove" /\ ret'.value = MOVE_OK) =>
        (/\ Len(stateHistory') = Len(stateHistory) + 1
         /\ StateFields(Last(stateHistory')) = StateFields(currentState)
         /\ HistoryFields(Front(stateHistory')) = HistoryFields(stateHistory))

\* a takebackMove that undoes a move removes the newest entry of the history
\* and makes it the current state: a board equal to it, its side to move,
\* its clock
TakebackRestoresTheNewestEntry ==
    (ret'.op = "takebackMove" /\ ret'.value = "undefined") =>
        (/\ PositionOf(currentState'.board) = PositionOf(Last(stateHistory).board)
         /\ Equals(currentState'.board, Last(stateHistory).board)
         /\ Equals(Last(stateHistory).board, currentState'.board)
         /\ currentState'.currentTurn = Last(stateHistory).currentTurn
         /\ currentState'.halfMoveClock = Last(stateHistory).halfMoveClock
         /\ HistoryFields(stateHistory') = HistoryFields(Front(stateHistory)))

\* the state before the first move of the game: whenever the history is empty
\* again, the game is in it
BackAtTheFirstState ==
    Len(stateHistory') = 0 =>
        (/\ PositionOf(currentState'.board) = StartingPosition
         /\ currentState'.currentTurn = WHITE
         /\ currentState'.halfMoveClock = 0)

\* C7: takebackMove after a successful makeMove that left the game Ongoing
\* restores a board equal to the pre-move board (occupancy, castling rights,
\* en passant square), the pre-move side to move and clock, and removes from
\* the history exactly the entry the move added; k moves followed by k
\* takebacks lead back to the state before the first of them.
TakebackUndoesMove ==
    [][/\ MoveAddsThePreMoveState
       /\ TakebackRestoresTheNewestEntry
       /\ BackAtTheFirstState]_vars

\* two moves were made and both were taken back
TwoMovesTakenBack ==
    /\ takebacks = 2
    /\ Len(stateHistory) = 0
    /\ ret = Call("takebackMove", "undefined")
    /\ result = ONGOING

\* the state a successful makeMove has left: no legal move means mate or
\* stalemate by the check, a legal move means neither
MateOrStalemateAfterMove ==
    ret = Call("makeMove", MOVE_OK) =>
        LET toMove == currentState.currentTurn
            none == GetValidMovesFor(currentState.board, toMove) = {}
            mated == IF toMove = WHITE THEN WHITE_MATED ELSE BLACK_MATED
        IN  IF none
            THEN result = IF IsInCheck(currentState.board, toMove) THEN mated ELSE STALEMATED
            ELSE result \notin {WHITE_MATED, BLACK_MATED, STALEMATED}

\* a mated or stalemated game has no legal move for the side to move
NoMoveWhenMated ==
    result \in {WHITE_MATED, BLACK_MATED, STALEMATED} =>
        GetValidMovesFor(currentState.board, currentState.currentTurn) = {}

\* the game E2E4, E7E5, F1C4, B8C6, D1H5, G8F6, H5F7 is won by White by mate
ScholarsMateEnds ==
    PlayedMoves = ScholarsMate => (result = BLACK_MATED /\ GetWinnerColor = WHITE)

\* the stalemate game ends as a draw by stalemate
StalemateGameEnds ==
    PlayedMoves = StalemateGame => (result = STALEMATED /\ GetWinnerColor = "")

\* C5: after a successful makeMove, a side to move without a legal move is
\* mated if in check and stalemated if not; result is not a Mated or
\* Stalemated value while the side to move has a legal move; E2E4, E7E5, F1C4,
\* B8C6, D1H5, G8F6, H5F7 ends with BlackMated and winner White.
MateExactlyWithoutLegalMoves ==
    /\ MateOrStalemateAfterMove
    /\ NoMoveWhenMated
    /\ ScholarsMateEnds
    /\ StalemateGameEnds

\* the scholar's mate was played and Black is mated
ScholarsMatePlayed ==
    /\ PlayedMoves = ScholarsMate
    /\ result = BLACK_MATED
    /\ IsInCheck(currentState.board, BLACK)

\* C6: after reset, getValidMovesFor(White) has exactly 20 entries.
TwentyMovesAtStart ==
    ret.op = "reset" =>
        Cardinality(GetValidMovesFor(currentState.board, WHITE)) = 20

\* the game as reset leaves it
FreshGame ==
    /\ ret.op = "reset"
    /\ PositionOf(currentState.board) = StartingPosition
    /\ currentState.currentTurn = WHITE
    /\ stateHistory = <<>>

\* the entries of a history whose position is that of a board
SamePositions(board, history) ==
    {i \in 1..Len(history) : PositionOf(history[i].board) = PositionOf(board)}

\* C8: a successful makeMove into a position that the history holds twice,
\* with a legal move for the side to move and sufficient material, sets
\* result to ThreefoldRepetition on that move.
ThirdOccurrenceEndsGame ==
    (/\ ret = Call("makeMove", MOVE_OK)
     /\ Cardinality(SamePositions(currentState.board, stateHistory)) >= 2
     /\ GetValidMovesFor(currentState.board, currentState.currentTurn) # {}
     /\ ~CheckForInsufficientMaterial(currentState.board))
    => result = THREEFOLD_REPETITION

\* the game ended by repetition in a position that the history holds twice
RepeatedThreeTimes ==
    /\ result = THREEFOLD_REPETITION
    /\ Cardinality(SamePositions(currentState.board, stateHistory)) = 2

\* C9: result is ThreefoldRepetition only if the current position is identical
\* (pieces, squares, castling rights, en passant square) to at least two
\* positions of the history.
RepetitionOnlyOfIdenticalPositions ==
    result = THREEFOLD_REPETITION =>
        Cardinality(SamePositions(currentState.board, stateHistory)) >= 2

\* the game ended by repetition in a position that never occurred before
RepetitionWithoutRepeat ==
    /\ result = THREEFOLD_REPETITION
    /\ SamePositions(currentState.board, stateHistory) = {}

\* the number of pieces on a board
PieceCount(board) == Cardinality({k \in Keys : Present(board.pieces[k])})

\* the last move took a piece, or moved a pawn
CaptureOrPawnMove ==
    LET before == Last(stateHistory).board
    IN  \/ PieceCount(currentState.board) < PieceCount(before)
        \/ GetPiece(before, currentState.board.lastMove.from).type = PAWN

\* the clock after a successful makeMove: 0 after a capture or a pawn move,
\* one more than before after any other move
ClockCountsQuietMoves ==
    ret = Call("makeMove", MOVE_OK) =>
        currentState.halfMoveClock =
            IF CaptureOrPawnMove THEN 0 ELSE Last(stateHistory).halfMoveClock + 1

\* a successful makeMove that brings the clock to 50 in a position that is not
\* mate, stalemate, insufficient material or a repetition ends the game
FiftyAtFifty ==
    (/\ ret = Call("makeMove", MOVE_OK)
     /\ currentState.halfMoveClock = 50
     /\ Cardinality(SamePositions(currentState.board, stateHistory)) < 2
     /\ ~CheckForInsufficientMaterial(currentState.board)
     /\ GetValidMovesFor(currentState.board, currentState.currentTurn) # {})
    => result = FIFTY_MOVES

\* C10: halfMoveClock counts the successful makeMove calls since the last
\* capture or pawn move; a successful makeMove that brings it to 50, in a
\* position that is neither mate, stalemate, insufficient material nor a
\* threefold repetition, sets result to FiftyMoves; result is not FiftyMoves
\* while the clock is below 50.
FiftyMoveRule ==
    /\ ClockCountsQuietMoves
    /\ FiftyAtFifty
    /\ (result = FIFTY_MOVES => currentState.halfMoveClock >= 50)

\* the game ended by the fifty-move rule with the clock at 50
FiftyMovesReached ==
    /\ result = FIFTY_MOVES
    /\ currentState.halfMoveClock = 50
    /\ ret = Call("makeMove", MOVE_OK)

\* the stalemate game was played and Black, to move and not in check, is
\* stalemated
StalemateGamePlayed ==
    /\ PlayedMoves = StalemateGame
    /\ result = STALEMATED
    /\ ~IsInCheck(currentState.board, BLACK)

\* the number of pieces of a type and colour on a board, by its squares
Holds(board, color, type) ==
    Cardinality({k \in Keys : Occupancy(board)[k] = <<type, color>>})

\* sufficient material: any rook, queen or pawn, two bishops, three knights,
\* or a bishop together with a knight
SufficientMaterial(board, color) ==
    \/ Holds(board, color, ROOK) + Holds(board, color, QUEEN) + Holds(board, color, PAWN) > 0
    \/ Holds(board, color, BISHOP) >= 2
    \/ Holds(board, color, KNIGHT) >= 3
    \/ (Holds(board, color, BISHOP) >= 1 /\ Holds(board, color, KNIGHT) >= 1)

\* the pieces on a board are the two kings and the given white and black ones
MaterialIs(board, white, black) ==
    PositionOf(board) = PositionOf(MaterialBoard(white, black))

\* C11: checkForInsufficientMaterial returns true exactly when neither colour
\* has sufficient material; it is true for king against king and for king and
\* bishop against king, and false for king and rook against king.
InsufficientMaterialExactly ==
    ret.op = "checkForInsufficientMaterial" =>
        /\ (ret.value = "true") <=>
               (/\ ~SufficientMaterial(currentState.board, WHITE)
                /\ ~SufficientMaterial(currentState.board, BLACK))
        /\ MaterialIs(currentState.board, <<>>, <<>>) => ret.value = "true"
        /\ MaterialIs(currentState.board, <<BISHOP>>, <<>>) => ret.value = "true"
        /\ MaterialIs(currentState.board, <<ROOK>>, <<>>) => ret.value = "false"

\* the check was made with two knights against a bishop: neither can mate
TwoKnightsAgainstBishop ==
    /\ ret = Call("checkForInsufficientMaterial", "true")
    /\ MaterialIs(currentState.board, <<KNIGHT, KNIGHT>>, <<BISHOP>>)

\* the last call moved a pawn diagonally onto a square that was empty
PawnTookOnEmptySquare ==
    /\ ret = Call("makeMove", MOVE_OK)
    /\ LET move == currentState.board.lastMove
           before == Last(stateHistory).board
       IN  /\ Occupancy(before)[KeyOf(move.from)][1] = PAWN
           /\ move.from.fileNumber # move.to.fileNumber
           /\ Occupancy(before)[KeyOf(move.to)][1] = "none"

\* the move that led to a board was a pawn's advance of two ranks over a square
DoubleAdvanceOver(board, square, color) ==
    LET move == board.lastMove
    IN  /\ move # NoMove
        /\ Occupancy(board)[KeyOf(move.to)] = <<PAWN, color>>
        /\ move.from.fileNumber = square.fileNumber
        /\ move.to.fileNumber = square.fileNumber
        /\ Abs(move.to.rankNumber - move.from.rankNumber) = 2
        /\ move.from.rankNumber + move.to.rankNumber = 2 * square.rankNumber

\* C12: makeMove accepts a pawn's diagonal move onto an empty square only if
\* the move before it was the opponent's double pawn advance over that
\* square; later the same capture is rejected.
EnPassantOnlyImmediately ==
    PawnTookOnEmptySquare =>
        DoubleAdvanceOver(Last(stateHistory).board, currentState.board.lastMove.to,
                          currentState.currentTurn)

\* a pawn took en passant: the pawn that had advanced is gone from its square
TookEnPassant ==
    /\ PawnTookOnEmptySquare
    /\ PieceCount(currentState.board) = PieceCount(Last(stateHistory).board) - 1
    /\ ~Present(GetPiece(currentState.board, Last(stateHistory).board.lastMove.to))

Squares == { Sq(file, rank) : file \in 1..8, rank \in 1..8 }

Sign(n) == IF n = 0 THEN 0 ELSE IF n > 0 THEN 1 ELSE -1

Larger(a, b) == IF a >= b THEN a ELSE b

\* the squares strictly between two squares of one file, rank or diagonal
Between(a, b) ==
    LET df == b.fileNumber - a.fileNumber
        dr == b.rankNumber - a.rankNumber
    IN  IF df = 0 \/ dr = 0 \/ Abs(df) = Abs(dr)
        THEN { Sq(a.fileNumber + i * Sign(df), a.rankNumber + i * Sign(dr)) :
                   i \in 1..(Larger(Abs(df), Abs(dr)) - 1) }
        ELSE {}

\* no piece stands on any of the squares
AllEmpty(board, squares) ==
    \A s \in squares : Occupancy(board)[KeyOf(s)][1] = "none"

\* The piece on `from` attacks the square `to` by the rules of chess: a pawn
\* attacks the two squares diagonally in front of it, occupied or not.
Attacks(board, from, to) ==
    LET type == Occupancy(board)[KeyOf(from)][1]
        color == Occupancy(board)[KeyOf(from)][2]
        df == to.fileNumber - from.fileNumber
        dr == to.rankNumber - from.rankNumber
        straight == (df = 0 \/ dr = 0) /\ from # to /\ AllEmpty(board, Between(from, to))
        diagonal == Abs(df) = Abs(dr) /\ from # to /\ AllEmpty(board, Between(from, to))
    IN  CASE type = PAWN -> Abs(df) = 1 /\ dr = (IF color = WHITE THEN 1 ELSE -1)
          [] type = KNIGHT -> {Abs(df), Abs(dr)} = {1, 2}
          [] type = KING -> Larger(Abs(df), Abs(dr)) = 1
          [] type = ROOK -> straight
          [] type = BISHOP -> diagonal
          [] type = QUEEN -> straight \/ diagonal
          [] OTHER -> FALSE

\* some piece of the colour attacks the square
AttackedBy(board, square, color) ==
    \E from \in Squares :
        /\ Occupancy(board)[KeyOf(from)][2] = color
        /\ Attacks(board, from, square)

\* the last call moved a king two files from the e-file: it castled
Castled ==
    /\ ret = Call("makeMove", MOVE_OK)
    /\ LET move == currentState.board.lastMove
       IN  /\ Occupancy(Last(stateHistory).board)[KeyOf(move.from)][1] = KING
           /\ move.from.fileNumber = 5
           /\ Abs(move.to.fileNumber - move.from.fileNumber) = 2

\* the two squares the castling king crossed and reached
CrossedSquares(move) ==
    { Sq((move.from.fileNumber + move.to.fileNumber) \div 2, move.from.rankNumber), move.to }

\* C13: makeMove does not return Ok for a castling move when a square the king
\* crosses or reaches (f and g file, or d and c file) is occupied or attacked
\* by a piece of the other colour, a pawn attacking both squares diagonally in
\* front of it, or when the king is in check.
CastlingOnlyOverSafeSquares ==
    Castled =>
        LET before == Last(stateHistory).board
            move == currentState.board.lastMove
            mover == Swap(currentState.currentTurn)
        IN  /\ AllEmpty(before, CrossedSquares(move))
            /\ \A s \in CrossedSquares(move) : ~AttackedBy(before, s, Swap(mover))
            /\ ~AttackedBy(before, move.from, Swap(mover))

\* White castled short although a black pawn on g2 attacked f1
CastledPastPawn ==
    /\ Castled
    /\ currentState.board.lastMove.to = Sq(7, 1)
    /\ Occupancy(Last(stateHistory).board)[KeyOf(Sq(7, 2))] = <<PAWN, BLACK>>
    /\ Occupancy(currentState.board)[KeyOf(Sq(6, 1))] = <<ROOK, WHITE>>

\* the corner on the side of a castling move
CornerOf(move) ==
    Sq(IF move.to.fileNumber > move.from.fileNumber THEN 8 ELSE 1, move.from.rankNumber)

\* the moves of the game before the last one
EarlierMoves == { PlayedMoves[i] : i \in 1..(Len(stateHistory) - 1) }

\* C14: a castling move is rejected if, earlier in the game, the king has
\* moved or the rook now on the corner has moved; castling is never performed
\* with a rook that arrived on the corner after the original rook was captured
\* there. (The king and the rook are still the original ones, unmoved, exactly
\* if no earlier move left the king's square or left or reached the corner.)
CastlingOnlyWithUnmovedPieces ==
    Castled =>
        \A m \in EarlierMoves :
            /\ m.from # currentState.board.lastMove.from
            /\ m.from # CornerOf(currentState.board.lastMove)
            /\ m.to # CornerOf(currentState.board.lastMove)

\* White castled with the rook that came from a1 after the rook on h1 was taken
CastledWithArrivedRook ==
    /\ Castled
    /\ PlayedMoves = ArrivedRookGame
    /\ Occupancy(currentState.board)[KeyOf(Sq(6, 1))] = <<ROOK, WHITE>>
    /\ Occupancy(currentState.board)[KeyOf(Sq(1, 1))][1] = "none"

\* C15: a draw offer does not persist across a move: result is DrawAgreed only
\* if both colours called offerDraw since the last successful makeMove,
\* whatever makeMove, takebackMove and offerDraw calls were made, and right
\* after every successful makeMove both draw-offer flags are false.
DrawOfferEndsWithTheMove ==
    /\ result = DRAW_AGREED => offers.sinceMove = {WHITE, BLACK}
    /\ ret = Call("makeMove", MOVE_OK) =>
           (~currentState.whiteOffersDraw /\ ~currentState.blackOffersDraw)

\* a draw was agreed although only one colour has offered it since the last
\* successful makeMove, which was taken back
DrawAgreedAcrossMove ==
    /\ result = DRAW_AGREED
    /\ Cardinality(offers.sinceMove) = 1
    /\ offers.sinceReset = {WHITE, BLACK}
    /\ takebacks > 0

\* a successful makeMove cleared an offer made before it
OfferClearedByMove ==
    /\ ret = Call("makeMove", MOVE_OK)
    /\ Last(stateHistory).whiteOffersDraw
    /\ ~currentState.whiteOffersDraw

\* a state with the draw-offer flag of a colour set, and nothing else changed
WithOffer(state, color) ==
    IF color = WHITE
    THEN [StateFields(state) EXCEPT !.whiteOffersDraw = TRUE]
    ELSE [StateFields(state) EXCEPT !.blackOffersDraw = TRUE]

\* C16: while the game is Ongoing, offerDraw(color) returns success, sets only
\* that colour's flag, and sets result to DrawAgreed exactly when both flags
\* are then set; offers by one colour alone never conclude the game.
OfferDrawAgreesOnlyWithBoth ==
    [][/\ (ret'.op = "offerDraw" /\ result = ONGOING) =>
              (/\ ret'.value = "true"
               /\ \E color \in {WHITE, BLACK} :
                      /\ offers'.sinceReset = offers.sinceReset \cup {color}
                      /\ StateFields(currentState') = WithOffer(currentState, color)
               /\ HistoryFields(stateHistory') = HistoryFields(stateHistory)
               /\ result' = IF currentState'.whiteOffersDraw /\ currentState'.blackOffersDraw
                            THEN DRAW_AGREED ELSE ONGOING)
       /\ (result' = DRAW_AGREED => offers'.sinceReset = {WHITE, BLACK})]_vars

\* White has offered a draw, Black has not, and the game goes on
OnlyWhiteOffered ==
    /\ ret = Call("offerDraw", "true")
    /\ offers.sinceReset = {WHITE}
    /\ currentState.whiteOffersDraw
    /\ ~currentState.blackOffersDraw
    /\ result = ONGOING

\* C17: for every valid square, parsing the two-character text that asString
\* returns for it yields a square equal to it.
SquareTextRoundTrip ==
    ret.op = "asString" =>
        /\ Len(ret.value.text) = 2
        /\ FromString(ret.value.text) # NoSquare
        /\ SquareEquals(FromString(ret.value.text), ret.value.square)
        /\ SquareEquals(ret.value.square, FromString(ret.value.text))

\* asString was called on h8 and returned "H8"
CornerSquareAsText ==
    /\ ret.op = "asString"
    /\ ret.value.square = Sq(8, 8)
    /\ ret.value.text = <<72, 56>>

\* a lower-case letter as its upper-case letter
UpperCase(unit) == IF unit \in 97..122 THEN unit - 32 ELSE unit

\* C18: fromString accepts exactly the two-character texts of a file letter
\* A-H, in either case, and a rank digit 1-8, returning that square ("e4" as
\* "E4"), and returns no value for every other text.
ParsesExactlySquareTexts ==
    ret.op = "fromString" =>
        LET text == ret.value.text
        IN  IF /\ Len(text) = 2
               /\ UpperCase(text[1]) \in 65..72
               /\ text[2] \in 49..56
            THEN ret.value.square = Sq(UpperCase(text[1]) - 64, text[2] - 48)
            ELSE ret.value.square = NoSquare

\* fromString("e4") returned no value
LowerCaseTextRejected ==
    /\ ret.op = "fromString"
    /\ ret.value.text = <<101, 52>>
    /\ ret.value.square = NoSquare

\* what a caller reads from a board: the piece on each square with its own
\* location, the castling rights, the en passant square and the last move
BoardFields(board) ==
    [pieces |-> [k \in Keys |-> <<board.pieces[k].type, board.pieces[k].color,
                                  board.pieces[k].location>>],
     castlingRights |-> board.castlingRights,
     enPassantSquare |-> board.enPassantSquare,
     lastMove |-> board.lastMove]

PiecesOf(board, color) ==
    Cardinality({k \in Keys : Occupancy(board)[k][2] = color})

\* every piece of the board stands on the square under which the board holds
\* it: no two pieces are on one square
OnePiecePerSquare(board) ==
    \A k \in Keys :
        Present(board.pieces[k]) =>
            (IsValid(board.pieces[k].location) /\ KeyOf(board.pieces[k].location) = k)

\* C20: in every state reached from reset by makeMove and takebackMove, each
\* square holds at most one piece and each colour has exactly one king; a
\* successful move leaves the mover as many pieces as before.
OneKingEachAndOnePiecePerSquare ==
    /\ OnePiecePerSquare(currentState.board)
    /\ Holds(currentState.board, WHITE, KING) = 1
    /\ Holds(currentState.board, BLACK, KING) = 1
    /\ ret = Call("makeMove", MOVE_OK) =>
           PiecesOf(currentState.board, Swap(currentState.currentTurn))
               = PiecesOf(Last(stateHistory).board, Swap(currentState.currentTurn))

\* after a move was taken back, White promoted a pawn on g8 by capturing
PromotedAfterTakeback ==
    /\ ret = Call("makeMove", MOVE_OK)
    /\ takebacks > 0
    /\ PlayedMoves = PromotionGame
    /\ Occupancy(currentState.board)[KeyOf(Sq(7, 8))] = <<QUEEN, WHITE>>
    /\ PiecesOf(currentState.board, BLACK) = PiecesOf(Last(stateHistory).board, BLACK) - 1

\* the calls now offered that move a pawn of the side to move onto the last
\* rank and are accepted when the caller asks for a queen
PromotingCalls ==
    { m \in PromotionCalls :
        /\ m.to.rankNumber \in {1, 8}
        /\ Present(GetPiece(currentState.board, m.from))
        /\ GetPiece(currentState.board, m.from).type = PAWN
        /\ MakeMoveResult(m.from, NewBoardTrial(m.from, m.to, "Q")) = MOVE_OK }

\* C21: a pawn move onto the last rank called without extra is accepted and
\* leaves a queen of the mover on the destination.
PromotesToQueenWithoutChoice ==
    \A m \in PromotingCalls :
        LET trial == NewBoardTrial(m.from, m.to, "")
        IN  /\ MakeMoveResult(m.from, trial) = MOVE_OK
            /\ Occupancy(trial.board)[KeyOf(m.to)] = <<QUEEN, currentState.currentTurn>>

\* the pawn stands on h7, h7xg8 with "Q" would be accepted, and the call
\* without extra is answered with ILLEGAL_PIECE_MOVE
PromotionWithoutChoiceRefused ==
    /\ PlayedMoves = SubSeq(PromotionGame, 1, 8)
    /\ In(8, 7, 7, 8, "") \in PromotingCalls
    /\ MakeMoveResult(Sq(8, 7), NewBoardTrial(Sq(8, 7), Sq(7, 8), "")) = ILLEGAL_PIECE_MOVE

\* the result named by the first of the four conditions that holds in a
\* state: no legal move for the side to move, insufficient material of both
\* sides, the position a third time, fifty half-moves on the clock
FirstConditionInOrder(state, history) ==
    IF GetValidMovesFor(state.board, state.currentTurn) = {}
    THEN IF AttackedBy(state.board,
                       CHOOSE s \in Squares :
                           Occupancy(state.board)[KeyOf(s)] = <<KING, state.currentTurn>>,
                       Swap(state.currentTurn))
         THEN IF state.currentTurn = WHITE THEN WHITE_MATED ELSE BLACK_MATED
         ELSE STALEMATED
    ELSE IF ~SufficientMaterial(state.board, WHITE) /\ ~SufficientMaterial(state.board, BLACK)
    THEN INSUFFICIENT_MATERIAL
    ELSE IF Cardinality(SamePositions(state.board, history)) >= 2
    THEN THREEFOLD_REPETITION
    ELSE IF state.halfMoveClock >= 50
    THEN FIFTY_MOVES
    ELSE ONGOING

\* C23: after every successful makeMove result is set by the first condition
\* that holds in the order no legal move, insufficient material, threefold
\* repetition, fifty-move rule, and is Ongoing if none holds.
ResultByFirstConditionInOrder ==
    ret = Call("makeMove", MOVE_OK) =>
        result = FirstConditionInOrder(currentState, stateHistory)

\* the same with the third condition read as the answer of
\* checkForThreefoldRepetition
ResultByFirstCheckInOrder ==
    ret = Call("makeMove", MOVE_OK) =>
        result = LET first == FirstConditionInOrder(currentState, <<>>)
                 IN  IF first \in {FIFTY_MOVES, ONGOING}
                        /\ CheckForThreefoldRepetition(currentState.board, stateHistory)
                     THEN THREEFOLD_REPETITION
                     ELSE first

\* 3... Nxc6 ended the game by repetition in a position that is new, with
\* legal moves, sufficient material and the clock at 0
RepetitionAgainstEveryCondition ==
    /\ ret = Call("makeMove", MOVE_OK)
    /\ PlayedMoves = KnightLossGame
    /\ FirstConditionInOrder(currentState, stateHistory) = ONGOING
    /\ result = THREEFOLD_REPETITION

\* Qh4 mated White on half-move 50 since the last pawn move
MatedAtFifty ==
    /\ ret = Call("makeMove", MOVE_OK)
    /\ PlayedMoves = FiftyMateGame
    /\ currentState.halfMoveClock = 50
    /\ result = WHITE_MATED

\* the position came a third time on half-move 50 since the last pawn move
RepeatedAtFifty ==
    /\ ret = Call("makeMove", MOVE_OK)
    /\ PlayedMoves = RepetitionFiftyGame
    /\ currentState.halfMoveClock = 50
    /\ Cardinality(SamePositions(currentState.board, stateHistory)) = 2
    /\ result = THREEFOLD_REPETITION

\* C22: takebackMove returns true when it undid a move, and false, changing
\* nothing, when the game is concluded or the history is empty.
TakebackMoveReturnsWhetherItUndid ==
    [][ret'.op = "takebackMove" =>
          IF result # ONGOING \/ Len(stateHistory) = 0
          THEN /\ ret'.value = "false"
               /\ UNCHANGED <<currentState, stateHistory, result>>
          ELSE /\ ret'.value = "true"
               /\ stateHistory' = SubSeq(stateHistory, 1, Len(stateHistory) - 1)]_vars

\* a takebackMove that undid 1. e4 has returned
TookBackFirstMove ==
    /\ ret.op = "takebackMove"
    /\ ret.value # "false"
    /\ takebacks = 1
    /\ Len(stateHistory) = 0
    /\ result = ONGOING

\* C24: a successful makeMove leaves halfMoveClock 0 after a capture (en
\* passant too) or a pawn move (promotion too) and one more than before after
\* any other move; takebackMove restores the stored value, reset sets 0, and
\* no other call changes it.
HalfMoveClockFollowsMoves ==
    [][LET before == currentState.board
           after == currentState'.board
       IN  IF ret' = Call("makeMove", MOVE_OK)
           THEN currentState'.halfMoveClock =
                    IF \/ PieceCount(after) < PieceCount(before)
                       \/ GetPiece(before, after.lastMove.from).type = PAWN
                    THEN 0
                    ELSE currentState.halfMoveClock + 1
           ELSE IF ret'.op = "takebackMove" /\ ret'.value # "false"
           THEN currentState'.halfMoveClock = Last(stateHistory).halfMoveClock
           ELSE IF ret'.op = "reset"
           THEN currentState'.halfMoveClock = 0
           ELSE currentState'.halfMoveClock = currentState.halfMoveClock]_vars

\* 4. Nxe5 took a knight after six quiet moves and the clock is 0
ClockResetByCapture ==
    /\ ret = Call("makeMove", MOVE_OK)
    /\ PlayedMoves = KnightTrade
    /\ Last(stateHistory).halfMoveClock = 6
    /\ currentState.halfMoveClock = 0

\* C25: Board.equals is true exactly for two boards with the same occupancy,
\* the same castling rights and the same en passant square by value, and is
\* symmetric. The boards compared are the current one and those of the
\* history.
EqualsExactlyOnSamePosition ==
    \A i \in 1..Len(stateHistory) :
        LET a == currentState.board
            b == stateHistory[i].board
        IN  /\ Equals(a, b) <=> (PositionOf(a) = PositionOf(b))
            /\ Equals(b, a) <=> (PositionOf(a) = PositionOf(b))
            /\ Equals(a, b) <=> Equals(b, a)

\* the current board equals an earlier one that has a piece more, and that
\* one does not equal the current board
EqualsOneWayOnly ==
    \E i \in 1..Len(stateHistory) :
        LET a == currentState.board
            b == stateHistory[i].board
        IN  /\ Equals(a, b)
            /\ ~Equals(b, a)
            /\ PieceCount(b) = PieceCount(a) + 1

\* what calculateHash computes from the pieces of a board when nothing is
\* cached
FreshHash(board) == CalculateHash([board EXCEPT !.dirty = TRUE])

\* C26: two boards with the same occupancy, castling rights and en passant
\* square have the same calculateHash value, and after any setPiece,
\* removePieceAt and makeMoveIfValid calls calculateHash returns what a fresh
\* computation over the pieces gives.
HashIsSoundAndNeverStale ==
    LET this == currentState.board
        other == stateHistory[1].board
    IN  /\ CalculateHash(this) = FreshHash(this)
        /\ CalculateHash(other) = FreshHash(other)
        /\ PositionOf(this) = PositionOf(other) => CalculateHash(this) = CalculateHash(other)
        /\ ret.op = "calculateHash" => ret.value = FreshHash(this)

\* the hash was cached, the knight then left h8 by makeMoveIfValid, and the
\* cached text is no longer that of the pieces
CachedHashOutdatedByMove ==
    LET this == currentState.board
    IN  /\ ret = Call("makeMoveIfValid", "true")
        /\ this.lastMove.from = Sq(8, 8)
        /\ this.dirty
        /\ this.hash # <<>>
        /\ this.hash # FreshHash(this)

\* the colour filters of isAttacked: none, White, Black
ColorFilters == {"", WHITE, BLACK}

\* a valid move of a king two files from where it stands: a castling candidate
CastlingCandidate(piece, move) ==
    /\ piece.type = KING
    /\ (move.fileNumber = piece.location.fileNumber + 2
        \/ move.fileNumber = piece.location.fileNumber - 2)

\* isAttacked as it would answer if the castling candidates of the kings were
\* passed over
IsAttackedIgnoringCastling(board, square, color) ==
    \E k \in Keys :
        LET piece == board.pieces[k]
        IN  /\ Present(piece)
            /\ ~(color # "" /\ color # piece.color)
            /\ \E moveKey \in 1..Len(piece.validMoves) :
                   /\ SquareEquals(piece.validMoves[moveKey], square)
                   /\ ~CastlingCandidate(piece, piece.validMoves[moveKey])
                   /\ IsMoveValid(board, piece, piece.validMoves[moveKey], "Q")

\* the deepest nesting looked for
MaxNesting == 4

\* How deep the isAttacked calls nest below isAttacked(square, color), counted
\* up to fuel + 1. A call opens another one only where a king passes the
\* filter and has a castling candidate on the square: canCastleShort /
\* canCastleLong then ask, if the right is held, whether the crossed square is
\* attacked by the other colour, and _validateCanCastle asks through isInCheck
\* whether the squares of the kings of that colour are.
RECURSIVE NestingOfIsAttacked(_, _, _, _)
NestingOfIsAttacked(board, square, color, fuel) ==
    IF fuel = 0
    THEN 1
    ELSE LET opened ==
                 UNION { LET king == board.pieces[k]
                             short == king.location.fileNumber = square.fileNumber - 2
                             held == IF short
                                     THEN board.castlingRights.short[king.color]
                                     ELSE board.castlingRights.long[king.color]
                         IN  IF ~held
                             THEN {}
                             ELSE { <<Sq(IF short THEN 6 ELSE 4, king.location.rankNumber),
                                      Swap(king.color)>> } \cup
                                  { <<board.pieces[j].location, Swap(king.color)>> :
                                        j \in {i \in Keys :
                                                  /\ board.pieces[i].type = KING
                                                  /\ board.pieces[i].color = king.color} }
                       : k \in {i \in Keys :
                                   /\ Present(board.pieces[i])
                                   /\ ~(color # "" /\ color # board.pieces[i].color)
                                   /\ \E moveKey \in 1..Len(board.pieces[i].validMoves) :
                                          /\ SquareEquals(board.pieces[i].validMoves[moveKey],
                                                          square)
                                          /\ CastlingCandidate(board.pieces[i], square)} }
             depths == { NestingOfIsAttacked(board, call[1], call[2], fuel - 1) :
                             call \in opened }
         IN  1 + (IF depths = {} THEN 0 ELSE CHOOSE d \in depths : \A e \in depths : e <= d)

\* C27: on every board reached by play, for every square and colour filter,
\* isAttacked answers as it would without the castling candidates of the
\* kings, and its calls nest at most two deep.
IsAttackedNeverByCastlingAlone ==
    \A square \in Squares : \A color \in ColorFilters :
        /\ IsAttacked(currentState.board, square, color)
               = IsAttackedIgnoringCastling(currentState.board, square, color)
        /\ NestingOfIsAttacked(currentState.board, square, color, MaxNesting) <= 2

\* White may castle short: the king's candidate g1 passes isMoveValid inside
\* isAttacked(G1, White), which opens a second isAttacked call
CastlingCandidateInsideIsAttacked ==
    LET board == currentState.board
        king == GetPiece(board, Sq(5, 1))
    IN  /\ king.type = KING
        /\ \E moveKey \in 1..Len(king.validMoves) : SquareEquals(king.validMoves[moveKey], Sq(7, 1))
        /\ KingIsMoveValid(board, king, Sq(7, 1))
        /\ IsAttacked(board, Sq(7, 1), WHITE)
        /\ NestingOfIsAttacked(board, Sq(7, 1), WHITE, MaxNesting) = 2

\* C28: in every state reached from reset by makeMove and takebackMove the
\* en passant square of the current board is set exactly when the last move
\* made on that board was a pawn's advance of two ranks, and is then the
\* square the pawn passed over.
EnPassantSquareOnlyAfterDoubleAdvance ==
    LET board == currentState.board
        move == board.lastMove
        doubleAdvance ==
            /\ move # NoMove
            /\ GetPiece(Last(stateHistory).board, move.from).type = PAWN
            /\ move.to.fileNumber = move.from.fileNumber
            /\ (move.to.rankNumber - move.from.rankNumber) \in {2, -2}
    IN  IF doubleAdvance
        THEN board.enPassantSquare =
                 Sq(move.from.fileNumber, (move.from.rankNumber + move.to.rankNumber) \div 2)
        ELSE board.enPassantSquare = NoSquare

\* 1. e4 was taken back and played again: the en passant square is e3
EnPassantSquareAfterTakeback ==
    /\ takebacks > 0
    /\ ret = Call("makeMove", MOVE_OK)
    /\ Len(stateHistory) = 1
    /\ currentState.board.enPassantSquare = Sq(5, 3)

\* a bishop's move cleared the en passant square that 3. a4 had set
EnPassantSquareCleared ==
    /\ ret = Call("makeMove", MOVE_OK)
    /\ Len(stateHistory) = 6
    /\ Last(stateHistory).board.enPassantSquare = Sq(1, 3)
    /\ currentState.board.enPassantSquare = NoSquare

\* the last move of the current board was a pawn's capture onto the en passant
\* square of the board before it
EnPassantCaptured ==
    /\ currentState.board.lastMove # NoMove
    /\ LET move == currentState.board.lastMove
           before == Last(stateHistory).board
       IN  /\ GetPiece(before, move.from).type = PAWN
           /\ move.to.fileNumber # move.from.fileNumber
           /\ SquareEquals(move.to, before.enPassantSquare)

\* the squares on which a colour's pieces of `before` no longer stand in `after`
RemovedFrom(before, after, color) ==
    { k \in Keys : /\ Occupancy(before)[k][2] = color
                   /\ Occupancy(after)[k] # Occupancy(before)[k] }

\* C29: a successful en passant capture removes exactly one opposing piece,
\* the pawn that just made the double advance (on the destination file at the
\* capturer's rank of origin), puts the capturing pawn on the en passant
\* square and records lastMove.capture as true.
EnPassantRemovesExactlyThePassedPawn ==
    EnPassantCaptured =>
        LET move == currentState.board.lastMove
            before == Last(stateHistory).board
            after == currentState.board
            mover == GetPiece(before, move.from).color
            passed == Sq(move.to.fileNumber, move.from.rankNumber)
        IN  /\ RemovedFrom(before, after, mover) = {KeyOf(move.from)}
            /\ \A color \in {WHITE, BLACK} \ {mover} :
                   /\ RemovedFrom(before, after, color) = {KeyOf(passed)}
                   /\ Occupancy(before)[KeyOf(passed)] = <<PAWN, color>>
            /\ SquareEquals(before.lastMove.to, passed)
            /\ ~Present(GetPiece(after, passed))
            /\ Occupancy(after)[KeyOf(move.to)] = <<PAWN, mover>>
            /\ move.capture = TRUE

\* the same of the captures onto an en passant square that was empty
EnPassantOntoEmptySquareRemovesThePassedPawn ==
    (EnPassantCaptured
        /\ ~Present(GetPiece(Last(stateHistory).board, currentState.board.lastMove.to)))
    => EnPassantRemovesExactlyThePassedPawn

\* 4... dxe3 took the knight on e3 and the pawn on e4
EnPassantRemovedTwoPieces ==
    /\ ret = Call("makeMove", MOVE_OK)
    /\ EnPassantCaptured
    /\ PiecesOf(currentState.board, WHITE) = 14
    /\ PiecesOf(currentState.board, BLACK) = 16

\* 3... dxc3 took the pawn on c4 and nothing else
BlackCapturedEnPassant ==
    /\ ret = Call("makeMove", MOVE_OK)
    /\ EnPassantCaptured
    /\ currentState.board.lastMove.to = Sq(3, 3)
    /\ PiecesOf(currentState.board, WHITE) = 15

\* C30: after a successful castling move the king stands two files from its
\* home square, the rook has gone from its corner to the square the king
\* crossed (h to f file, a to d file, same rank), the corner is empty and no
\* other piece has changed square.
CastlingMovesKingAndCornerRookOnly ==
    Castled =>
        LET move == currentState.board.lastMove
            before == Last(stateHistory).board
            after == currentState.board
            color == Occupancy(before)[KeyOf(move.from)][2]
            rank == IF color = WHITE THEN 1 ELSE 8
            short == move.to.fileNumber > move.from.fileNumber
            corner == Sq(IF short THEN 8 ELSE 1, rank)
            crossed == Sq(IF short THEN 6 ELSE 4, rank)
            moved == { KeyOf(move.from), KeyOf(move.to), KeyOf(corner), KeyOf(crossed) }
        IN  /\ move.from = Sq(5, rank)
            /\ move.to = Sq(IF short THEN 7 ELSE 3, rank)
            /\ Occupancy(before)[KeyOf(corner)] = <<ROOK, color>>
            /\ ~Present(GetPiece(before, crossed))
            /\ ~Present(GetPiece(before, move.to))
            /\ Occupancy(after)[KeyOf(move.to)] = <<KING, color>>
            /\ GetPiece(after, move.to).location = move.to
            /\ Occupancy(after)[KeyOf(crossed)] = <<ROOK, color>>
            /\ GetPiece(after, crossed).location = crossed
            /\ ~Present(GetPiece(after, corner))
            /\ ~Present(GetPiece(after, move.from))
            /\ \A k \in Keys \ moved : Occupancy(after)[k] = Occupancy(before)[k]
            /\ OnePiecePerSquare(after)

\* 5... O-O-O: Black has castled long after White did
BlackCastledLong ==
    /\ Castled
    /\ currentState.board.lastMove.to = Sq(3, 8)
    /\ Occupancy(currentState.board)[KeyOf(Sq(3, 1))][1] = KING

\* the castling rights of a colour on a board, short and long
RightsOf(board, color) ==
    <<board.castlingRights.short[color], board.castlingRights.long[color]>>

\* C31: a successful makeMove never sets a castling right: a king move clears
\* both rights of its colour, a rook move from file H its colour's short right
\* and one from file A its long right, every other right stays as it was, and
\* the opponent's rights never change; takebackMove and reset may restore one.
CastlingRightsOnlyRevokedByMoves ==
    [][ret' = Call("makeMove", MOVE_OK) =>
         LET before == currentState.board
             after == currentState'.board
             move == after.lastMove
             type == GetPiece(before, move.from).type
             color == GetPiece(before, move.from).color
             shortRevoked == type = KING \/ (type = ROOK /\ move.from.fileNumber = 8)
             longRevoked == type = KING \/ (type = ROOK /\ move.from.fileNumber = 1)
         IN  /\ RightsOf(after, color) =
                    << IF shortRevoked THEN FALSE ELSE before.castlingRights.short[color],
                       IF longRevoked THEN FALSE ELSE before.castlingRights.long[color] >>
             /\ \A other \in {WHITE, BLACK} \ {color} :
                    RightsOf(after, other) = RightsOf(before, other)]_vars

\* a rook move from h1 has cost White the short right and nothing else
ShortRightRevokedByRookMove ==
    /\ ret = Call("makeMove", MOVE_OK)
    /\ GetPiece(Last(stateHistory).board, currentState.board.lastMove.from).type = ROOK
    /\ currentState.board.lastMove.from = Sq(8, 1)
    /\ RightsOf(Last(stateHistory).board, WHITE) = <<TRUE, TRUE>>
    /\ RightsOf(currentState.board, WHITE) = <<FALSE, TRUE>>
    /\ RightsOf(currentState.board, BLACK) = <<TRUE, TRUE>>

\* a take-back has given White back the rights that castling had cleared
RightsRestoredByTakeback ==
    /\ ret.op = "takebackMove"
    /\ RightsOf(currentState.board, WHITE) = <<TRUE, TRUE>>
    /\ Len(stateHistory) = Len(ShortCastleGame) - 2
    /\ PlayedMoves = SubSeq(ShortCastleGame, 1, Len(ShortCastleGame) - 2)

\* The squares a piece may be asked to move to by its pattern alone, from its
\* location on the board: a step or a diagonal step forward and the double
\* step from the start rank for a pawn, the lines of a rook, bishop or queen
\* up to the edge, the jumps of a knight, the neighbours of a king and the
\* squares two files away while its colour has the right of that side.
PatternSquares(board, piece) ==
    LET at == piece.location
        df(sq) == sq.fileNumber - at.fileNumber
        dr(sq) == sq.rankNumber - at.rankNumber
        forward == IF piece.color = WHITE THEN 1 ELSE -1
        startRank == IF piece.color = WHITE THEN 2 ELSE 7
        straight(sq) == (df(sq) = 0) # (dr(sq) = 0)
        diagonal(sq) == df(sq) # 0 /\ Abs(df(sq)) = Abs(dr(sq))
    IN  { sq \in Squares :
            CASE piece.type = PAWN ->
                     \/ dr(sq) = forward /\ Abs(df(sq)) <= 1
                     \/ dr(sq) = 2 * forward /\ df(sq) = 0 /\ at.rankNumber = startRank
              [] piece.type = ROOK -> straight(sq)
              [] piece.type = BISHOP -> diagonal(sq)
              [] piece.type = QUEEN -> straight(sq) \/ diagonal(sq)
              [] piece.type = KNIGHT -> {Abs(df(sq)), Abs(dr(sq))} = {1, 2}
              [] piece.type = KING ->
                     \/ Larger(Abs(df(sq)), Abs(dr(sq))) = 1
                     \/ dr(sq) = 0 /\ df(sq) = 2 /\ board.castlingRights.short[piece.color]
                     \/ dr(sq) = 0 /\ df(sq) = -2 /\ board.castlingRights.long[piece.color]
              [] OTHER -> FALSE }

\* the candidate list of a piece, as a set
CandidatesOf(piece) == { piece.validMoves[i] : i \in 1..Len(piece.validMoves) }

\* the keys of the pieces of a board whose candidates are not their pattern
StaleCandidates(board) ==
    { k \in Keys : /\ Present(board.pieces[k])
                   /\ CandidatesOf(board.pieces[k]) # PatternSquares(board, board.pieces[k]) }

\* C32: after every committed move and after takebackMove the candidate list
\* of each piece of the current board, as a set, is exactly the pattern
\* squares of the piece's location (and of the castling rights, for a king):
\* no square of an earlier location or recalculation is left in it.
CandidatesAreThePatternOfTheLocation ==
    StaleCandidates(currentState.board) = {}

\* the same of every piece but the pawn that made the last move of the board
CandidatesStaleOnlyForTheMovedPawn ==
    \A k \in StaleCandidates(currentState.board) :
        /\ currentState.board.pieces[k].type = PAWN
        /\ currentState.board.lastMove # NoMove
        /\ k = KeyOf(currentState.board.lastMove.to)

\* 1. e4: the pawn on e4 still lists e3, d3 and f3
MovedPawnKeepsOldCandidates ==
    /\ ret = Call("makeMove", MOVE_OK)
    /\ Len(stateHistory) = 1
    /\ currentState.board.lastMove.to = Sq(5, 4)
    /\ {Sq(4, 3), Sq(5, 3), Sq(6, 3)} \subseteq CandidatesOf(GetPiece(currentState.board, Sq(5, 4)))
    /\ StaleCandidates(currentState.board) = {KeyOf(Sq(5, 4))}

\* what makeMove answers to the promoting calls of the current state when they
\* carry the text `extra`: refused, or accepted with a piece of the mover of
\* the type kinds[extra] on the destination
PromotionAnswers(extra, kinds) ==
    \A m \in PromotingCalls :
        \E trial \in { NewBoardTrial(m.from, m.to, extra) } :
            IF extra \in DOMAIN kinds
            THEN /\ MakeMoveResult(m.from, trial) = MOVE_OK
                 /\ Occupancy(trial.board)[KeyOf(m.to)] =
                        <<kinds[extra], currentState.currentTurn>>
                 /\ PiecesOf(trial.board, currentState.currentTurn) =
                        PiecesOf(currentState.board, currentState.currentTurn)
            ELSE /\ MakeMoveResult(m.from, trial) = ILLEGAL_PIECE_MOVE
                 /\ Occupancy(trial.board) = Occupancy(currentState.board)

\* C33 as stated: a pawn move onto the last rank is refused with any text
\* supplied as the choice but Q, R, B or N, and with one of these leaves a
\* queen, rook, bishop or knight of the mover on the destination.
PromotesOnlyWithQRBN ==
    \A extra \in PromotionExtras \ {""} :
        PromotionAnswers(extra, [e \in {"Q", "R", "B", "N"} |->
                                    CASE e = "Q" -> QUEEN [] e = "R" -> ROOK
                                      [] e = "B" -> BISHOP [] OTHER -> KNIGHT])

\* C33, amended: a pawn move onto the last rank is refused with any text
\* supplied as the choice but one of the letters Q, R, B, K, N; Q, R and B leave a queen, rook or bishop
\* of the mover on the destination, and N and K both a knight.
PromotesOnlyWithQRBKN ==
    \A extra \in PromotionExtras \ {""} :
        PromotionAnswers(extra, [e \in {"Q", "R", "B", "K", "N"} |->
                                    CASE e = "Q" -> QUEEN [] e = "R" -> ROOK
                                      [] e = "B" -> BISHOP [] OTHER -> KNIGHT])

\* 5. hxg8 was called with "K" and a white knight stands on g8
PromotedWithK ==
    /\ ret = Call("makeMove", MOVE_OK)
    /\ PlayedMoves = [PromotionGame EXCEPT ![9].extra = "K"]
    /\ Occupancy(currentState.board)[KeyOf(Sq(7, 8))] = <<KNIGHT, WHITE>>

\* two different squares of one file, rank or diagonal
Aligned(a, b) ==
    /\ a # b
    /\ \/ a.fileNumber = b.fileNumber
       \/ a.rankNumber = b.rankNumber
       \/ Abs(a.fileNumber - b.fileNumber) = Abs(a.rankNumber - b.rankNumber)

\* the squares strictly between two squares, from the first towards the
\* second: none unless the squares are aligned and not adjacent
OpenInterval(a, b) ==
    IF ~Aligned(a, b)
    THEN <<>>
    ELSE [i \in 1..(Larger(Abs(b.fileNumber - a.fileNumber),
                           Abs(b.rankNumber - a.rankNumber)) - 1) |->
             Sq(a.fileNumber + i * Sign(b.fileNumber - a.fileNumber),
                a.rankNumber + i * Sign(b.rankNumber - a.rankNumber))]

\* the destination is on a ray of a rook, bishop or queen standing on `from`
OnRayOf(type, from, to) ==
    /\ Aligned(from, to)
    /\ type = ROOK => (from.fileNumber = to.fileNumber \/ from.rankNumber = to.rankNumber)
    /\ type = BISHOP => (from.fileNumber # to.fileNumber /\ from.rankNumber # to.rankNumber)

\* C34: a rook, bishop or queen move is accepted only to a square of one of
\* the piece's rays with every square strictly between empty; pathTo gives
\* exactly the open interval between two aligned squares and the empty
\* sequence for adjacent, identical and non-aligned squares.
SlidersMoveAlongClearRaysOnly ==
    /\ \A k \in Keys :
           LET piece == currentState.board.pieces[k]
           IN  piece.type \in {ROOK, BISHOP, QUEEN} =>
                   \A to \in Squares :
                       /\ PathTo(piece.location, to) = OpenInterval(piece.location, to)
                       /\ IsMoveValid(currentState.board, piece, to, "") =>
                              /\ OnRayOf(piece.type, piece.location, to)
                              /\ \A s \in Between(piece.location, to) :
                                     ~Present(GetPiece(currentState.board, s))
    /\ ret = Call("makeMove", MOVE_OK) =>
           LET move == currentState.board.lastMove
               before == Last(stateHistory).board
               type == GetPiece(before, move.from).type
           IN  type \in {ROOK, BISHOP, QUEEN} =>
                   /\ OnRayOf(type, move.from, move.to)
                   /\ \A s \in Between(move.from, move.to) : ~Present(GetPiece(before, s))
                   /\ \A s \in Squares \ {move.from, move.to} :
                          Occupancy(currentState.board)[KeyOf(s)] = Occupancy(before)[KeyOf(s)]

\* 2... g6 has closed the diagonal h5-e8 and 3. Qxe8 is refused
SliderRefusedBehindPawn ==
    /\ PlayedMoves = SubSeq(BlockedHuntGame, 1, 4)
    /\ ret = Call("makeMove", ILLEGAL_PIECE_MOVE)
    /\ Present(GetPiece(currentState.board, Sq(7, 6)))
    /\ PathTo(Sq(8, 5), Sq(5, 8)) = <<Sq(7, 6), Sq(6, 7)>>
    /\ ~IsMoveValid(currentState.board, GetPiece(currentState.board, Sq(8, 5)), Sq(5, 8), "")

\* 2. Qd1-h5 was accepted over the three empty squares e2, f3, g4
SliderMovedOverEmptySquares ==
    /\ ret = Call("makeMove", MOVE_OK)
    /\ currentState.board.lastMove.from = Sq(4, 1)
    /\ currentState.board.lastMove.to = Sq(8, 5)
    /\ PathTo(Sq(4, 1), Sq(8, 5)) = <<Sq(5, 2), Sq(6, 3), Sq(7, 4)>>

\* the last move of the current board was a pawn's advance of two ranks
DoubleAdvanced ==
    /\ currentState.board.lastMove # NoMove
    /\ LET move == currentState.board.lastMove
       IN  /\ GetPiece(Last(stateHistory).board, move.from).type = PAWN
           /\ move.to.fileNumber = move.from.fileNumber
           /\ Abs(move.to.rankNumber - move.from.rankNumber) = 2

\* C35: a pawn's advance of two ranks is accepted only from its start rank and
\* only if the square it passes over and its destination are both empty.
DoubleAdvanceOverEmptySquaresOnly ==
    DoubleAdvanced =>
        LET move == currentState.board.lastMove
            before == Last(stateHistory).board
            color == GetPiece(before, move.from).color
            passed == Sq(move.from.fileNumber, (move.from.rankNumber + move.to.rankNumber) \div 2)
        IN  /\ move.from.rankNumber = IF color = WHITE THEN 2 ELSE 7
            /\ move.to.rankNumber = IF color = WHITE THEN 4 ELSE 5
            /\ ~Present(GetPiece(before, move.to))
            /\ ~Present(GetPiece(before, passed))

\* the same without the square passed over
DoubleAdvanceOntoEmptySquareOnly ==
    DoubleAdvanced =>
        LET move == currentState.board.lastMove
            before == Last(stateHistory).board
            color == GetPiece(before, move.from).color
        IN  /\ move.from.rankNumber = IF color = WHITE THEN 2 ELSE 7
            /\ move.to.rankNumber = IF color = WHITE THEN 4 ELSE 5
            /\ ~Present(GetPiece(before, move.to))

\* 4. e2-e4 was accepted with the white knight on e3
PawnJumpedOverKnight ==
    /\ ret = Call("makeMove", MOVE_OK)
    /\ DoubleAdvanced
    /\ currentState.board.lastMove.to = Sq(5, 4)
    /\ Occupancy(Last(stateHistory).board)[KeyOf(Sq(5, 3))] = <<KNIGHT, WHITE>>
    /\ Occupancy(currentState.board)[KeyOf(Sq(5, 3))] = <<KNIGHT, WHITE>>
    /\ Occupancy(currentState.board)[KeyOf(Sq(5, 4))] = <<PAWN, WHITE>>

\* the states of the history whose board has the pieces, the castling rights
\* and the (unset) en passant square of the current board
SameBoardBefore ==
    { i \in 1..Len(stateHistory) :
        /\ Occupancy(stateHistory[i].board) = Occupancy(currentState.board)
        /\ stateHistory[i].board.castlingRights = currentState.board.castlingRights
        /\ stateHistory[i].board.enPassantSquare = NoSquare
        /\ currentState.board.enPassantSquare = NoSquare }

\* those of them in which the side to move was the one to move now
SameBoardAndTurnBefore ==
    { i \in SameBoardBefore : stateHistory[i].currentTurn = currentState.currentTurn }

\* C36 as stated: only the states of the history with the same side to move
\* count as repetitions of the current position; a state with the same board
\* and the other side to move never adds to the count.
RepetitionCountsSameSideToMoveOnly ==
    ret = Call("makeMove", MOVE_OK) =>
        /\ AmountOfPreviousSamePositions(currentState.board, stateHistory) =
               1 + Cardinality(SameBoardAndTurnBefore)
        /\ result = THREEFOLD_REPETITION => Cardinality(SameBoardAndTurnBefore) >= 2

\* C36, amended: every state of the history with the same board counts as a
\* repetition of the current position, whichever side was to move in it, and
\* the game does not go on once two of them exist.
RepetitionCountsEitherSideToMove ==
    ret = Call("makeMove", MOVE_OK) =>
        /\ AmountOfPreviousSamePositions(currentState.board, stateHistory) >=
               1 + Cardinality(SameBoardBefore)
        /\ Cardinality(SameBoardBefore) >= 2 => result # ONGOING

\* in the games of SpecTempo, which have no capture, no other state counts
RepetitionCountsExactlyTheSameBoards ==
    ret = Call("makeMove", MOVE_OK) =>
        /\ AmountOfPreviousSamePositions(currentState.board, stateHistory) =
               1 + Cardinality(SameBoardBefore)
        /\ result = THREEFOLD_REPETITION <=> Cardinality(SameBoardBefore) >= 2

\* 4. Qd1 has brought back the board of move 1 with Black to move, and the
\* state after 1... e6, with White to move, is counted
CountedWithOtherSideToMove ==
    /\ ret = Call("makeMove", MOVE_OK)
    /\ Len(stateHistory) = 7
    /\ currentState.currentTurn = BLACK
    /\ SameBoardBefore = {3}
    /\ stateHistory[3].currentTurn = WHITE
    /\ AmountOfPreviousSamePositions(currentState.board, stateHistory) = 2

\* 6. Qd1: drawn by repetition with one earlier state of each side to move
DrawnWithEitherSideToMove ==
    /\ result = THREEFOLD_REPETITION
    /\ Cardinality(SameBoardBefore) = 2
    /\ Cardinality(SameBoardAndTurnBefore) = 1

\* C37: after any calls of reset, makeMove, takebackMove, resign and offerDraw
\* result is never WhiteFlagged or BlackFlagged, and getWinnerColor returns
\* Black exactly for WhiteMated and WhiteResigned, White exactly for
\* BlackMated and BlackResigned, and no colour for Ongoing and the draws.
NeverFlaggedAndWinnerByResult ==
    /\ result \notin {WHITE_FLAGGED, BLACK_FLAGGED}
    /\ result \in {ONGOING, WHITE_MATED, BLACK_MATED, WHITE_RESIGNED, BLACK_RESIGNED,
                   STALEMATED, INSUFFICIENT_MATERIAL, DRAW_AGREED, THREEFOLD_REPETITION,
                   FIFTY_MOVES}
    /\ GetWinnerColor = BLACK <=> result \in {WHITE_MATED, WHITE_RESIGNED}
    /\ GetWinnerColor = WHITE <=> result \in {BLACK_MATED, BLACK_RESIGNED}
    /\ GetWinnerColor = "" <=> result \in {ONGOING, STALEMATED, INSUFFICIENT_MATERIAL,
                                           DRAW_AGREED, THREEFOLD_REPETITION, FIFTY_MOVES}

\* 2... Qh4 has mated White after a take-back: the winner is Black
WhiteMatedBlackWins ==
    /\ PlayedMoves = FoolsMate
    /\ takebacks > 0
    /\ result = WHITE_MATED
    /\ GetWinnerColor = BLACK

\* the results reached by the calls
ResultsReached(results) == result \in results

StalematedNoWinner == ResultsReached({STALEMATED}) /\ GetWinnerColor = ""

RepetitionNoWinner == ResultsReached({THREEFOLD_REPETITION}) /\ GetWinnerColor = ""

DrawAgreedNoWinner == ResultsReached({DRAW_AGREED}) /\ GetWinnerColor = ""

BlackResignedWhiteWins == ResultsReached({BLACK_RESIGNED}) /\ GetWinnerColor = WHITE

\* the boards of the game, before the first move and after each move
BoardAfter(n) == IF n = Len(stateHistory) THEN currentState.board ELSE stateHistory[n + 1].board

\* move n of the game took no piece and moved no pawn
QuietMove(n) ==
    /\ PieceCount(BoardAfter(n)) = PieceCount(BoardAfter(n - 1))
    /\ GetPiece(BoardAfter(n - 1), BoardAfter(n).lastMove.from).type # PAWN

\* the number of moves up to move n made since the last capture or pawn move
RECURSIVE QuietMovesUpTo(_)
QuietMovesUpTo(n) ==
    IF n = 0 \/ ~QuietMove(n) THEN 0 ELSE 1 + QuietMovesUpTo(n - 1)

QuietRun == QuietMovesUpTo(Len(stateHistory))

\* C38: while result is Ongoing, halfMoveClock is at least 0, less than 50 and
\* at most the length of stateHistory: at most 49 successive moves without a
\* capture or a pawn move leave the game Ongoing.
OngoingOnlyBelowFiftyQuietMoves ==
    result = ONGOING =>
        /\ currentState.halfMoveClock \in 0..49
        /\ currentState.halfMoveClock <= Len(stateHistory)
        /\ QuietRun <= 49
        /\ \A i \in 1..Len(stateHistory) :
               /\ stateHistory[i].halfMoveClock \in 0..49
               /\ stateHistory[i].halfMoveClock <= i - 1

\* the forty-ninth quiet move was taken back and made again: still Ongoing
FortyNineQuietMovesOngoing ==
    /\ result = ONGOING
    /\ takebacks > 0
    /\ ret = Call("makeMove", MOVE_OK)
    /\ currentState.halfMoveClock = 49
    /\ QuietRun = 49

\* the fiftieth quiet move has ended the game
FiftiethQuietMoveEndsGame ==
    /\ result = FIFTY_MOVES
    /\ takebacks > 0
    /\ QuietRun = 50

\* the from/to pair of an entry of getValidMovesFor
PairOf(board, entry) ==
    <<board.pieces[entry[1]].location, board.pieces[entry[1]].validMoves[entry[2]]>>

\* the legal moves of a colour on a board, as from/to pairs: the moves between
\* any two squares that a fresh copy of the board accepts (a promotion with
\* "Q") without leaving the colour's king in check
LegalPairs(board, color) ==
    { pair \in { <<from, to>> : from \in { s \in Squares : GetPiece(board, s).color = color },
                                to \in Squares } :
        \E trial \in { MakeMoveIfValid(CloneBoard(board), pair[1], pair[2], "Q", 0) } :
            trial.ok /\ ~IsInCheck(trial.board, color) }

\* the entries of a list of getValidMovesFor that repeat another entry's
\* from/to pair
RepeatedEntries(board, entries) ==
    { e \in entries :
        \E other \in entries : other # e /\ PairOf(board, other) = PairOf(board, e) }

\* C39: on every board reached by makeMove and takebackMove
\* getValidMovesFor(color) lists each legal move of the colour exactly once:
\* no from/to pair twice, a promotion counted once.
ValidMovesListedExactlyOnce ==
    \A color \in {WHITE, BLACK} :
        \E entries \in { GetValidMovesFor(currentState.board, color) } :
            /\ RepeatedEntries(currentState.board, entries) = {}
            /\ { PairOf(currentState.board, e) : e \in entries }
                   = LegalPairs(currentState.board, color)

\* the list names exactly the legal moves, and only pawn moves are repeated
ValidMovesAreTheLegalMovesPawnMovesRepeated ==
    \A color \in {WHITE, BLACK} :
        \E entries \in { GetValidMovesFor(currentState.board, color) } :
            /\ \A e \in RepeatedEntries(currentState.board, entries) :
                   currentState.board.pieces[e[1]].type = PAWN
            /\ { PairOf(currentState.board, e) : e \in entries }
                   = LegalPairs(currentState.board, color)

\* after White's first move getValidMovesFor(Black) has 36 entries for the 20
\* legal moves of Black: each of the 16 pawn moves is listed twice
BlackPawnMovesListedTwice ==
    /\ ret = Call("makeMove", MOVE_OK)
    /\ Len(stateHistory) = 1
    /\ Cardinality(GetValidMovesFor(currentState.board, BLACK)) = 36
    /\ Cardinality(LegalPairs(currentState.board, BLACK)) = 20
    /\ Cardinality(RepeatedEntries(currentState.board,
                                    GetValidMovesFor(currentState.board, BLACK))) = 32

\* the colour to move after n moves
TurnAfter(n) == IF n % 2 = 0 THEN WHITE ELSE BLACK

\* C40: currentTurn is White exactly when stateHistory has even length; a
\* successful makeMove appends one state and gives the turn to the other
\* colour, a successful takebackMove removes one state and gives it back, and
\* resign and offerDraw change neither.
TurnFollowsLengthOfHistory ==
    /\ [](/\ currentState.currentTurn = TurnAfter(Len(stateHistory))
          /\ \A i \in 1..Len(stateHistory) : stateHistory[i].currentTurn = TurnAfter(i - 1))
    /\ [][CASE ret' = Call("makeMove", MOVE_OK) ->
                   /\ Len(stateHistory') = Len(stateHistory) + 1
                   /\ SubSeq(stateHistory', 1, Len(stateHistory)) = stateHistory
                   /\ currentState'.currentTurn # currentState.currentTurn
             [] ret'.op = "takebackMove" /\ ret'.value # "false" ->
                   /\ Len(stateHistory) > 0
                   /\ stateHistory' = SubSeq(stateHistory, 1, Len(stateHistory) - 1)
                   /\ currentState'.currentTurn # currentState.currentTurn
             [] ret'.op = "reset" ->
                   /\ stateHistory' = <<>>
                   /\ currentState'.currentTurn = WHITE
             [] OTHER ->
                   /\ stateHistory' = stateHistory
                   /\ currentState'.currentTurn = currentState.currentTurn]_vars

\* two moves were made and one was taken back: Black is to move with one
\* state in the history
BlackToMoveAfterTakeback ==
    /\ ret.op = "takebackMove"
    /\ ret.value # "false"
    /\ takebacks = 1
    /\ Len(stateHistory) = 1
    /\ currentState.currentTurn = BLACK

\* a resignation after the first move has left the turn and the history alone
TurnKeptByResignation ==
    /\ ret = Call("resign", "true")
    /\ Len(stateHistory) = 1
    /\ currentState.currentTurn = BLACK

====
